---------------------------- MODULE Spec2Model ----------------------------
(***************************************************************************)
(* Model of the DLD unit finder (src/app.py): the matching core            *)
(* extract_search_phrases, find_units and rank_results, the page handler   *)
(* main with the store file and its refresh, and the CSV conversion of     *)
(* src/convert_csv_to_db.py.                                               *)
(*                                                                         *)
(* A Python str is a sequence of one-character strings, so that lower(),   *)
(* strip(), split(), len() and the substring test (Python's `in`, SQL's    *)
(* LIKE '%x%') are computed character by character.                        *)
(***************************************************************************)
EXTENDS Integers, Sequences, FiniteSets, TLC

VARIABLES
    prop,       \* the scraped listing (the dict built by scrape_property_finder)
    db,         \* the rows of table units, in rowid order
    pc,         \* position of the lookup inside find_units
    phrases,    \* find_units' local `phrases`
    results,    \* find_units' local `results`
    qlog,       \* every query issued on conn so far, with the rows it returned
    score,      \* rank_results' _match_score of every candidate, in tenths
    ret,        \* the returned list
    retpos,     \* for each returned entry, its position in `results` (retrieval order)
    dbfile,     \* what the file at DB_PATH holds ("absent": no such file)
    gzfile,     \* what the file at DB_GZ_PATH holds
    rpc,        \* position inside download_db_from_github / _download_and_decompress
    asset,      \* what the release asset being downloaded is
    dbconn,     \* main's local `conn`, the value of get_db()
    ui,         \* the message main put on the page
    ran,        \* the steps of a lookup main has run
    badges,     \* the badge render_card gave to each card
    csv,        \* the CSV file given to convert_csv_to_sqlite: its rows, the header first
    units,      \* the rows of the table units that convert_csv_to_sqlite built
    unique_columns, \* convert_csv_to_sqlite's local `unique_columns`
    line_num    \* the line of the CSV the row loop reads next

\* the state of find_units and rank_results
lookupVars == <<prop, db, pc, phrases, results, qlog, score, ret, retpos>>

\* the store file, its refresh and the page
appVars == <<dbfile, gzfile, rpc, asset, dbconn, ui, ran, badges>>

\* the conversion
etlVars == <<csv, units, unique_columns, line_num>>

vars == <<lookupVars, appVars, etlVars>>

-----------------------------------------------------------------------------
(* Characters and strings *)

UpperChars == <<"A","B","C","D","E","F","G","H","I","J","K","L","M",
                "N","O","P","Q","R","S","T","U","V","W","X","Y","Z">>
LowerChars == <<"a","b","c","d","e","f","g","h","i","j","k","l","m",
                "n","o","p","q","r","s","t","u","v","w","x","y","z">>

\* str.lower() on one character
LowerChar(c) ==
    IF \E i \in DOMAIN UpperChars : UpperChars[i] = c
    THEN LowerChars[CHOOSE i \in DOMAIN UpperChars : UpperChars[i] = c]
    ELSE c

\* str.lower()
Lower(s) == [i \in 1..Len(s) |-> LowerChar(s[i])]

\* the characters str.strip(), str.split() and the regex class \s treat as space
Spaces == {" ", "\t", "\n", "\r"}

IsSpace(c) == c \in Spaces

RECURSIVE LStrip(_)
LStrip(s) == IF s # <<>> /\ IsSpace(Head(s)) THEN LStrip(Tail(s)) ELSE s

RECURSIVE RStrip(_)
RStrip(s) ==
    IF s # <<>> /\ IsSpace(s[Len(s)]) THEN RStrip(SubSeq(s, 1, Len(s) - 1)) ELSE s

\* str.strip()
Strip(s) == RStrip(LStrip(s))

\* The maximal runs of characters of s that are not separators, in order.
\* cur is the run being read.
RECURSIVE Tokens(_, _, _)
Tokens(s, seps, cur) ==
    IF s = <<>> THEN (IF cur = <<>> THEN <<>> ELSE <<cur>>)
    ELSE IF Head(s) \in seps
         THEN (IF cur = <<>> THEN <<>> ELSE <<cur>>) \o Tokens(Tail(s), seps, <<>>)
         ELSE Tokens(Tail(s), seps, Append(cur, Head(s)))

\* str.split() with no argument: split on runs of whitespace, no empty tokens
Split(s) == Tokens(s, Spaces, <<>>)

\* the separators of re.split(r"[\s,\-/|]+", title)
TitleSeps == Spaces \cup {",", "-", "/", "|"}

\* re.split(r"[\s,\-/|]+", title).  The empty strings re.split yields at a
\* leading or trailing separator are left out: the caller drops every token
\* with len(w) <= 1.
ReSplitTitle(s) == Tokens(s, TitleSeps, <<>>)

\* " ".join(parts)
RECURSIVE Join(_)
Join(parts) ==
    IF parts = <<>> THEN <<>>
    ELSE IF Len(parts) = 1 THEN parts[1]
    ELSE parts[1] \o <<" ">> \o Join(Tail(parts))

\* needle in hay (Python), LOWER(col) LIKE '%needle%' (SQL, no wildcard in needle)
Contains(needle, hay) ==
    \E i \in 0..(Len(hay) - Len(needle)) : SubSeq(hay, i + 1, i + Len(needle)) = needle

\* F(v), with v evaluated once
Once(v, F(_)) == CHOOSE r \in {F(x) : x \in {v}} : TRUE

\* the elements of a sequence
Range(s) == {s[i] : i \in DOMAIN s}

-----------------------------------------------------------------------------
(* Words the source names *)

TitleStop ==
    { <<"f","o","r">>, <<"s","a","l","e">>, <<"r","e","n","t">>, <<"i","n">>, <<"a","t">>,
      <<"a">>, <<"a","n">>, <<"b","e","d">>, <<"b","e","d","r","o","o","m">>,
      <<"b","e","d","r","o","o","m","s">>, <<"b","a","t","h","r","o","o","m">>,
      <<"b","a","t","h","r","o","o","m","s">>, <<"w","i","t","h">>, <<"a","n","d">>,
      <<"b","u","y">>, <<"a","e","d">>, <<"s","q","f","t">>, <<"s","q">>, <<"f","t">>,
      <<"b","r">>, <<"-">>, <<"o","f">>, <<"o","n">>, <<"b","y">>, <<"t","o">>,
      <<"f","r","o","m">>, <<"d","u","b","a","i">>, <<"u","a","e">>,
      <<"p","r","o","p","e","r","t","y">>, <<"e","l","e","g","a","n","t">>,
      <<"l","u","x","u","r","y">>, <<"l","u","x","u","r","i","o","u","s">>,
      <<"b","e","a","u","t","i","f","u","l">>, <<"s","t","u","n","n","i","n","g">>,
      <<"s","p","a","c","i","o","u","s">>, <<"b","r","a","n","d">>, <<"n","e","w">>,
      <<"m","o","d","e","r","n">>, <<"e","x","c","l","u","s","i","v","e">>,
      <<"p","r","e","m","i","u","m">>, <<"a","m","a","z","i","n","g">>,
      <<"g","o","r","g","e","o","u","s">> }

GenericCrumbs ==
    { <<"d","u","b","a","i">>, <<"h","o","m","e">>, <<"b","u","y">>, <<"r","e","n","t">>,
      <<"p","r","o","p","e","r","t","i","e","s">>, <<"u","a","e">> }

-----------------------------------------------------------------------------
(* extract_search_phrases *)

\* prop.get("title") or prop.get("og_title") or prop.get("name", "")
TitleOf(p) ==
    IF p.title # <<>> THEN p.title
    ELSE IF p.og_title # <<>> THEN p.og_title
    ELSE p.name

\* Fault variant of AddressPhrases: community is appended before sub_community.
AddressPhrasesCommunityFirst(p) ==
    (IF p.community # <<>> /\ p.community # p.sub_community
     THEN <<p.community>> ELSE <<>>)
    \o (IF p.sub_community # <<>> THEN <<p.sub_community>> ELSE <<>>)
    \o (IF p.master_community # <<>> /\ p.master_community # p.community
        THEN <<p.master_community>> ELSE <<>>)
    \o (IF p.dld_zone_name # <<>> THEN <<p.dld_zone_name>> ELSE <<>>)

\* step 1 and 2: sub_community / community / master_community, then the zone
AddressPhrases(p) ==
    (IF p.sub_community # <<>> THEN <<p.sub_community>> ELSE <<>>)
    \o (IF p.community # <<>> /\ p.community # p.sub_community
        THEN <<p.community>> ELSE <<>>)
    \o (IF p.master_community # <<>> /\ p.master_community # p.community
        THEN <<p.master_community>> ELSE <<>>)
    \o (IF p.dld_zone_name # <<>> THEN <<p.dld_zone_name>> ELSE <<>>)

TitleKeep(w) == Lower(w) \notin TitleStop /\ Len(w) > 1

\* Fault variant of TitlePhrases: the phrase is appended only when two words
\* or more are left.
TitlePhrasesTwoWords(p) ==
    LET title == TitleOf(p)
        words == SelectSeq(ReSplitTitle(title), TitleKeep)
    IN  IF title # <<>> /\ Len(words) >= 2 THEN <<Join(words)>> ELSE <<>>

\* step 3: the title without stop words
TitlePhrases(p) ==
    LET title == TitleOf(p)
        words == SelectSeq(ReSplitTitle(title), TitleKeep)
    IN  IF title # <<>> /\ words # <<>> THEN <<Join(words)>> ELSE <<>>

\* Fault variant of UrlSplits: only the right part of each split is appended.
RECURSIVE UrlSplitsRightOnly(_, _)
UrlSplitsRightOnly(parts, split_at) ==
    IF split_at >= Len(parts) THEN <<>>
    ELSE LET right == Join(SubSeq(parts, split_at + 1, Len(parts)))
         IN  (IF Len(right) > 2 THEN <<right>> ELSE <<>>)
             \o UrlSplitsRightOnly(parts, split_at + 1)

\* Fault variant of UrlSplits: the joins are kept from 2 characters on.
RECURSIVE UrlSplitsMinTwo(_, _)
UrlSplitsMinTwo(parts, split_at) ==
    IF split_at >= Len(parts) THEN <<>>
    ELSE LET left  == Join(SubSeq(parts, 1, split_at))
             right == Join(SubSeq(parts, split_at + 1, Len(parts)))
         IN  (IF Len(right) > 1 THEN <<right>> ELSE <<>>)
             \o (IF Len(left) > 1 THEN <<left>> ELSE <<>>)
             \o UrlSplitsMinTwo(parts, split_at + 1)

\* the body of `for split_at in range(1, len(parts))`, from split_at on
RECURSIVE UrlSplits(_, _)
UrlSplits(parts, split_at) ==
    IF split_at >= Len(parts) THEN <<>>
    ELSE LET left  == Join(SubSeq(parts, 1, split_at))
             right == Join(SubSeq(parts, split_at + 1, Len(parts)))
         IN  (IF Len(right) > 2 THEN <<right>> ELSE <<>>)
             \o (IF Len(left) > 2 THEN <<left>> ELSE <<>>)
             \o UrlSplits(parts, split_at + 1)

\* step 4: the URL location and every left/right split of it
UrlPhrases(p) ==
    LET url_loc == p.url_location
        parts   == Split(url_loc)
    IN  IF url_loc = <<>> THEN <<>>
        ELSE <<url_loc>> \o (IF Len(parts) >= 2 THEN UrlSplits(parts, 1) ELSE <<>>)

CrumbKeep(c) == Lower(c) \notin GenericCrumbs /\ Len(c) > 2

\* step 5: the breadcrumbs
CrumbPhrases(p) ==
    SelectSeq([i \in DOMAIN p.breadcrumbs |-> Strip(p.breadcrumbs[i])], CrumbKeep)

\* Fault variant of ContributedPhrases: the URL location is read before the
\* title.
ContributedPhrasesUrlFirst(p) ==
    AddressPhrases(p) \o UrlPhrases(p) \o TitlePhrases(p) \o CrumbPhrases(p)

\* the list `phrases` before deduplication
ContributedPhrases(p) ==
    AddressPhrases(p) \o TitlePhrases(p) \o UrlPhrases(p) \o CrumbPhrases(p)

\* Fault variant of DedupPhrases: the phrases are compared and kept as
\* written, without lower-casing.
RECURSIVE DedupPhrasesCaseSensitive(_, _)
DedupPhrasesCaseSensitive(ps, unique) ==
    IF ps = <<>> THEN unique
    ELSE LET p_strip == Strip(Head(ps))
         IN  IF p_strip # <<>> /\ p_strip \notin Range(unique)
             THEN DedupPhrasesCaseSensitive(Tail(ps), Append(unique, p_strip))
             ELSE DedupPhrasesCaseSensitive(Tail(ps), unique)

\* the # Deduplicate loop: unique is the list built so far
RECURSIVE DedupPhrases(_, _)
DedupPhrases(ps, unique) ==
    IF ps = <<>> THEN unique
    ELSE LET p_lower == Lower(Strip(Head(ps)))
         IN  IF p_lower # <<>> /\ p_lower \notin Range(unique)
             THEN DedupPhrases(Tail(ps), Append(unique, p_lower))
             ELSE DedupPhrases(Tail(ps), unique)

extract_search_phrases(p) == DedupPhrases(ContributedPhrases(p), <<>>)

-----------------------------------------------------------------------------
(* The registry store as find_units queries it *)

LIMIT_100 == 100
LIMIT_200 == 200

\* rows[:n]
Take(rows, n) == SubSeq(rows, 1, IF Len(rows) < n THEN Len(rows) ELSE n)

\* LOWER(col) LIKE '%pat%'.  SQLite's LIKE ignores ASCII case on both sides,
\* so a pattern that was not lower-cased matches too.  The modelled strings
\* hold neither % nor _ .
Like(col, pat) == Contains(Lower(pat), Lower(col))

\* SELECT * FROM units WHERE LOWER(field) LIKE ? LIMIT limit
\* The scan returns the rows in rowid order.
SelectLike(conn, field, pat, limit) ==
    Take(SelectSeq(conn, LAMBDA r : Like(r[field], pat)), limit)

\* SELECT * FROM units WHERE LOWER(f1) LIKE ? AND LOWER(f2) LIKE ? LIMIT limit
SelectLike2(conn, f1, pat1, f2, pat2, limit) ==
    Take(SelectSeq(conn, LAMBDA r : Like(r[f1], pat1) /\ Like(r[f2], pat2)), limit)

\* One entry of the query log: the strategy that issued the query, the query
\* (which of the strategy's queries it is) and the rows it returned.
Issued(strategy, query, rows) == [strategy |-> strategy, query |-> query, rows |-> rows]

\* The rows a strategy adds to results: those of its last query (the loops
\* break at the first query that returns rows).
Found(log) == IF log = <<>> THEN <<>> ELSE log[Len(log)].rows

\* Fault variant of PhraseScan: the loop has no break and queries every phrase.
RECURSIVE PhraseScanNoBreak(_, _, _, _, _, _)
PhraseScanNoBreak(conn, strategy, field, ps, minlen, limit) ==
    IF ps = <<>> THEN <<>>
    ELSE IF Len(Head(ps)) > minlen
         THEN <<Issued(strategy, field, SelectLike(conn, field, Head(ps), limit))>>
              \o PhraseScanNoBreak(conn, strategy, field, Tail(ps), minlen, limit)
         ELSE PhraseScanNoBreak(conn, strategy, field, Tail(ps), minlen, limit)

\* `for phrase in phrases: [if len(phrase) > minlen:] rows = query; if rows: break`
\* The queries issued, in order, up to and including the first that returns rows.
RECURSIVE PhraseScan(_, _, _, _, _, _)
PhraseScan(conn, strategy, field, ps, minlen, limit) ==
    IF ps = <<>> THEN <<>>
    ELSE IF Len(Head(ps)) > minlen
         THEN LET rows == SelectLike(conn, field, Head(ps), limit)
                  q    == Issued(strategy, field, rows)
              IN  IF rows # <<>> THEN <<q>>
                  ELSE <<q>> \o PhraseScan(conn, strategy, field, Tail(ps), minlen, limit)
         ELSE PhraseScan(conn, strategy, field, Tail(ps), minlen, limit)

\* Strategy 2's loop `for split_at in range(1, len(parts))`, from split_at on
RECURSIVE PairScan(_, _, _)
PairScan(conn, parts, split_at) ==
    IF split_at >= Len(parts) THEN <<>>
    ELSE LET master_candidate  == Join(SubSeq(parts, 1, split_at))
             project_candidate == Join(SubSeq(parts, split_at + 1, Len(parts)))
             rows == SelectLike2(conn, "project_name_en", project_candidate,
                                 "master_project_en", master_candidate, LIMIT_100)
             q    == Issued(2, "project+master", rows)
         IN  IF Len(project_candidate) > 2 /\ Len(master_candidate) > 2
             THEN (IF rows # <<>> THEN <<q>>
                   ELSE <<q>> \o PairScan(conn, parts, split_at + 1))
             ELSE PairScan(conn, parts, split_at + 1)

NoiseWords ==
    { <<"t","h","e">>, <<"a","n","d">>, <<"f","o","r">>, <<"v","i","l","l","a">>,
      <<"a","p","a","r","t","m","e","n","t">>, <<"t","o","w","e","r">>,
      <<"b","u","i","l","d","i","n","g">>, <<"r","e","s","i","d","e","n","c","e">>,
      <<"r","e","s","i","d","e","n","c","e","s">>, <<"d","u","b","a","i">>,
      <<"p","h","a","s","e">>, <<"b","l","o","c","k">>, <<"c","l","u","s","t","e","r">> }

WordKeep(w) == w \notin NoiseWords /\ Len(w) > 3

\* Strategy 5's words, phrase by phrase: the inner loop breaks at the first
\* word that returns rows and the outer one breaks as soon as results is not
\* empty, so the two loops visit this list in order up to the first hit.
RECURSIVE SignificantWords(_)
SignificantWords(ps) ==
    IF ps = <<>> THEN <<>>
    ELSE SelectSeq(Split(Head(ps)), WordKeep) \o SignificantWords(Tail(ps))

-----------------------------------------------------------------------------
(* difflib.SequenceMatcher(None, a, b).ratio() *)

Max(S) == CHOOSE x \in S : \A y \in S : x >= y

Min(S) == CHOOSE x \in S : \A y \in S : x <= y

\* the length of the longest common prefix of a[i..ahi-1] and b[j..bhi-1]
RECURSIVE CommonPrefix(_, _, _, _, _, _)
CommonPrefix(a, b, i, j, ahi, bhi) ==
    IF i < ahi /\ j < bhi /\ a[i] = b[j]
    THEN 1 + CommonPrefix(a, b, i + 1, j + 1, ahi, bhi)
    ELSE 0

\* find_longest_match(alo, ahi, blo, bhi): the longest block a[i..i+k-1] =
\* b[j..j+k-1] inside the two windows; of the longest ones the one that starts
\* earliest in a, and of those the one that starts earliest in b.  No element
\* is junk: isjunk is None and autojunk only acts when len(b) >= 200.
LongestMatch(a, b, alo, ahi, blo, bhi) ==
    LET starts == {pr \in (alo..(ahi - 1)) \X (blo..(bhi - 1)) : a[pr[1]] = b[pr[2]]}
        size   == [pr \in starts |-> CommonPrefix(a, b, pr[1], pr[2], ahi, bhi)]
        k      == Max({size[pr] : pr \in starts})
        i      == Min({pr[1] : pr \in {q \in starts : size[q] = k}})
        j      == Min({pr[2] : pr \in {q \in starts : size[q] = k /\ q[1] = i}})
    IN  IF starts = {} THEN <<alo, blo, 0>> ELSE <<i, j, k>>

\* get_matching_blocks: the total size of the blocks found by taking the
\* longest match and then matching what lies left and right of it
RECURSIVE MatchedChars(_, _, _, _, _, _)
MatchedChars(a, b, alo, ahi, blo, bhi) ==
    LET m == LongestMatch(a, b, alo, ahi, blo, bhi)
        i == m[1]
        j == m[2]
        k == m[3]
    IN  IF k = 0 THEN 0
        ELSE k
             + (IF alo < i /\ blo < j THEN MatchedChars(a, b, alo, i, blo, j) ELSE 0)
             + (IF i + k < ahi /\ j + k < bhi
                THEN MatchedChars(a, b, i + k, ahi, j + k, bhi) ELSE 0)

\* ratio() = 2.0 * matches / (len(a) + len(b)), as the pair <<numerator, denominator>>
\* (1.0 when both are empty)
Ratio(a, b) ==
    IF Len(a) + Len(b) = 0 THEN <<1, 1>>
    ELSE <<2 * MatchedChars(a, b, 1, Len(a) + 1, 1, Len(b) + 1), Len(a) + Len(b)>>

-----------------------------------------------------------------------------
(* Numeric coercion: float(text) *)

Digits == <<"0","1","2","3","4","5","6","7","8","9">>

IsDigit(c) == \E i \in DOMAIN Digits : Digits[i] = c

DigitVal(c) == (CHOOSE i \in DOMAIN Digits : Digits[i] = c) - 1

\* the value of a run of digits
RECURSIVE DigitsVal(_)
DigitsVal(s) ==
    IF s = <<>> THEN 0 ELSE 10 * DigitsVal(SubSeq(s, 1, Len(s) - 1)) + DigitVal(s[Len(s)])

RECURSIVE Pow10(_)
Pow10(n) == IF n = 0 THEN 1 ELSE 10 * Pow10(n - 1)

\* float(s) for a decimal literal: optional surrounding whitespace, an
\* optional sign, digits with at most one point and at least one digit.
\* ok = FALSE is the ValueError; the value is num / den.  Exponents, inf, nan
\* and digit-grouping underscores are not among the modelled strings.
ParseFloat(s) ==
    LET t     == Strip(s)
        neg   == t # <<>> /\ Head(t) = "-"
        u     == IF t # <<>> /\ Head(t) \in {"+", "-"} THEN Tail(t) ELSE t
        dots  == {i \in DOMAIN u : u[i] = "."}
        dot   == IF dots = {} THEN Len(u) + 1 ELSE CHOOSE i \in dots : TRUE
        ip    == SubSeq(u, 1, dot - 1)
        fp    == SubSeq(u, dot + 1, Len(u))
        ok    == /\ Cardinality(dots) <= 1
                 /\ \A i \in DOMAIN u : IsDigit(u[i]) \/ u[i] = "."
                 /\ Len(ip) + Len(fp) >= 1
        mag   == DigitsVal(ip) * Pow10(Len(fp)) + DigitsVal(fp)
    IN  IF ok THEN [ok |-> TRUE, num |-> (IF neg THEN 0 - mag ELSE mag), den |-> Pow10(Len(fp))]
        ELSE [ok |-> FALSE, num |-> 0, den |-> 1]

\* int(x) of the float num / den: truncation toward zero
TruncDiv(num, den) == IF num >= 0 THEN num \div den ELSE 0 - ((0 - num) \div den)

Abs(x) == IF x < 0 THEN 0 - x ELSE x

-----------------------------------------------------------------------------
(* rank_results *)

RankStop ==
    { <<"t","h","e">>, <<"a","n","d">>, <<"f","o","r">>, <<"o","f">>, <<"i","n">>, <<"a","t">>,
      <<"a">>, <<"a","n">>, <<"t","o">>, <<"b","y">>, <<"o","n">>, <<"f","r","o","m">> }

wVilla == <<"v","i","l","l","a">>

\* all_terms: the words of every phrase, without the stop words
AllTerms(search_phrases) ==
    UNION {Range(Split(Lower(search_phrases[i]))) : i \in DOMAIN search_phrases} \ RankStop

\* max(len(search_phrases[0].split()), 1); read only where a phrase exists
FirstWordCount(search_phrases) ==
    LET n == IF search_phrases = <<>> THEN 0 ELSE Len(Split(search_phrases[1]))
    IN  IF n > 1 THEN n ELSE 1

\* sum over the phrases contained in field of len(phrase.split())
RECURSIVE PhraseWords(_, _)
PhraseWords(ps, field) ==
    IF ps = <<>> THEN 0
    ELSE (IF Contains(Head(ps), field) THEN Len(Split(Head(ps))) ELSE 0)
         + PhraseWords(Tail(ps), field)

\* Fault variant of TypePoints: a registry value that the listing's type
\* contains counts as a match too.
TypePointsEitherWay(p, d) ==
    LET ptype      == Lower(p.property_type)
        db_type    == Lower(d.property_type_en)
        db_subtype == Lower(d.property_sub_type_en)
    IN  IF ptype = <<>> THEN 0
        ELSE IF Contains(ptype, db_type) \/ Contains(ptype, db_subtype) THEN 15
        ELSE IF (db_type # <<>> /\ Contains(db_type, ptype))
                \/ (db_subtype # <<>> /\ Contains(db_subtype, ptype)) THEN 15
        ELSE 0

\* the + 15 of the property type
TypePoints(p, d) ==
    LET ptype      == Lower(p.property_type)
        db_type    == Lower(d.property_type_en)
        db_subtype == Lower(d.property_sub_type_en)
    IN  IF ptype = <<>> THEN 0
        ELSE IF Contains(ptype, db_type) \/ Contains(ptype, db_subtype) THEN 15
        ELSE IF ptype = wVilla /\ Contains(wVilla, db_subtype) THEN 15
        ELSE 0

\* the longest run of digits that s begins with
RECURSIVE LeadingDigits(_)
LeadingDigits(s) ==
    IF s # <<>> /\ IsDigit(Head(s)) THEN <<Head(s)>> \o LeadingDigits(Tail(s)) ELSE <<>>

\* Fault variant of BedPoints: a room count that float() rejects is read
\* leniently, from its leading digits ("4 B/R" counts as 4).
BedPointsLenient(p, d) ==
    LET beds     == p.bedrooms
        db_rooms == d.rooms
        f        == ParseFloat(db_rooms)
        lead     == LeadingDigits(Strip(db_rooms))
    IN  IF beds # <<>> /\ db_rooms # <<>> /\ f.ok /\ beds[1] = TruncDiv(f.num, f.den)
        THEN 10
        ELSE IF beds # <<>> /\ ~f.ok /\ lead # <<>> /\ beds[1] = DigitsVal(lead)
        THEN 10 ELSE 0

\* the + 10 of the bedrooms: bedrooms is <<>> (None) or <<n>>
BedPoints(p, d) ==
    LET beds     == p.bedrooms
        db_rooms == d.rooms
        f        == ParseFloat(db_rooms)
    IN  IF beds # <<>> /\ db_rooms # <<>> /\ f.ok /\ beds[1] = TruncDiv(f.num, f.den)
        THEN 10 ELSE 0

\* the + 12 of the area: abs(sqft - float(db_area) * 10.764) < sqft * 0.15,
\* multiplied out by 1000 * den
AreaPoints(p, d) ==
    LET sqft    == p.area_sqft
        db_area == d.actual_area
        f       == ParseFloat(db_area)
    IN  IF sqft # 0 /\ db_area # <<>> /\ f.ok
           /\ Abs(1000 * f.den * sqft - 10764 * f.num) < 150 * f.den * sqft
        THEN 12 ELSE 0

\* round(x, 1) of x = num / den >= 0, in tenths: to the nearest tenth, a tie
\* to the even one.  The binary rounding error of the float sum, which can
\* move a value that lies within an ulp of a tie, is not modelled.
RoundTenths(num, den) ==
    LET q == (10 * num) \div den
        r == (10 * num) % den
    IN  IF 2 * r > den THEN q + 1
        ELSE IF 2 * r < den THEN q
        ELSE IF q % 2 = 0 THEN q ELSE q + 1

\* the phrase points of one row, times wc0: 60 * (n / wc0) for every phrase in
\* the project name and 25 * (n / wc0) for every phrase in the master project
PhrasePoints(d, search_phrases) ==
    60 * PhraseWords(search_phrases, Lower(d.project_name_en))
    + 25 * PhraseWords(search_phrases, Lower(d.master_project_en))

\* SequenceMatcher(None, full_search, project).ratio(), 0 without a project name
ProjectRatio(d, search_phrases) ==
    IF d.project_name_en # <<>>
    THEN Ratio(Lower(Join(search_phrases)), Lower(d.project_name_en))
    ELSE <<0, 1>>

\* the area terms (+ 5 each) and the zone (+ 20)
AreaNamePoints(d, p, search_phrases) ==
    5 * Cardinality({term \in AllTerms(search_phrases) :
                        Contains(term, Lower(d.area_name_en))})
    + (IF p.dld_zone_name # <<>> /\ Contains(Lower(p.dld_zone_name), Lower(d.area_name_en))
       THEN 20 ELSE 0)

\* round(score, 1) in tenths, of score = t.phrase / t.wc0 + 30 * t.ratio + t.whole
ScoreTenths(t) ==
    RoundTenths(t.phrase * t.ratio[2] + 30 * t.ratio[1] * t.wc0
                + t.whole * t.wc0 * t.ratio[2],
                t.wc0 * t.ratio[2])

\* d["_match_score"] of one row, in tenths
MatchScore(d, p, search_phrases) ==
    Once([phrase |-> PhrasePoints(d, search_phrases),
          wc0    |-> FirstWordCount(search_phrases),
          ratio  |-> ProjectRatio(d, search_phrases),
          whole  |-> AreaNamePoints(d, p, search_phrases)
                     + TypePoints(p, d) + BedPoints(p, d) + AreaPoints(p, d)],
         ScoreTenths)

\* Fault variant of DedupKey: the key reads property_type_en in place of
\* project_name_en.
DedupKeyWrongColumn(d) == <<d.unit_number, d.land_number, d.property_type_en>>

\* the business key of the # Deduplicate loop
DedupKey(d) == <<d.unit_number, d.land_number, d.project_name_en>>

\* Fault variant of SortDesc: a position is placed before the positions of
\* equal score, so ties come out in reverse retrieval order.
RECURSIVE SortDescUnstable(_, _, _)
SortDescUnstable(sc, done, i) ==
    IF i > Len(sc) THEN done
    ELSE LET before == {k \in DOMAIN done : sc[done[k]] > sc[i]}
             at     == Cardinality(before)
         IN  SortDescUnstable(sc,
                      SubSeq(done, 1, at) \o <<i>> \o SubSeq(done, at + 1, Len(done)),
                      i + 1)

\* list.sort(key=_match_score, reverse=True) on positions 1..Len(sc): the
\* sort is stable, so a position is placed behind every position already
\* placed whose score is >= its own.  done is the sorted prefix, i the next
\* position to place.
RECURSIVE SortDesc(_, _, _)
SortDesc(sc, done, i) ==
    IF i > Len(sc) THEN done
    ELSE LET before == {k \in DOMAIN done : sc[done[k]] >= sc[i]}
             at     == Cardinality(before)
         IN  SortDesc(sc,
                      SubSeq(done, 1, at) \o <<i>> \o SubSeq(done, at + 1, Len(done)),
                      i + 1)

\* Fault variant of DedupOrder: a later position of a key replaces the one kept.
RECURSIVE DedupOrderKeepLast(_, _, _)
DedupOrderKeepLast(rows, order, unique) ==
    IF order = <<>> THEN unique
    ELSE IF \E k \in DOMAIN unique : DedupKey(rows[unique[k]]) = DedupKey(rows[Head(order)])
         THEN DedupOrderKeepLast(rows, Tail(order),
                  [k \in DOMAIN unique |->
                      IF DedupKey(rows[unique[k]]) = DedupKey(rows[Head(order)])
                      THEN Head(order) ELSE unique[k]])
         ELSE DedupOrderKeepLast(rows, Tail(order), Append(unique, Head(order)))

\* the # Deduplicate loop over the sorted positions: keep the first position
\* of every key
RECURSIVE DedupOrder(_, _, _)
DedupOrder(rows, order, unique) ==
    IF order = <<>> THEN unique
    ELSE IF \E k \in DOMAIN unique : DedupKey(rows[unique[k]]) = DedupKey(rows[Head(order)])
         THEN DedupOrder(rows, Tail(order), unique)
         ELSE DedupOrder(rows, Tail(order), Append(unique, Head(order)))

\* the scores of rows, position by position
Scores(rows, p, search_phrases) ==
    [i \in DOMAIN rows |-> MatchScore(rows[i], p, search_phrases)]

\* rank_results as positions of rows (the retrieval order): which candidate
\* stands where in the returned list
RankOrder(rows, sc) == DedupOrder(rows, SortDesc(sc, <<>>, 1), <<>>)

\* Fault variant of Scored: the lower-cased project name that the scoring
\* loop computes is written back into the entry.
ScoredLowered(row, s) ==
    [k \in DOMAIN row \cup {"_match_score"} |->
        IF k = "_match_score" THEN s
        ELSE IF k = "project_name_en" THEN Lower(row[k]) ELSE row[k]]

\* dict(row) with d["_match_score"] set
Scored(row, s) == [k \in DOMAIN row \cup {"_match_score"} |->
                      IF k = "_match_score" THEN s ELSE row[k]]

\* the returned list: the kept candidates, each with its score
RankedList(rows, sc, kept) ==
    [i \in DOMAIN kept |-> Scored(rows[kept[i]], sc[kept[i]])]

\* rank_results(rows, prop, search_phrases)
rank_results(rows, p, search_phrases) ==
    Once(Scores(rows, p, search_phrases),
         LAMBDA sc : RankedList(rows, sc, RankOrder(rows, sc)))

-----------------------------------------------------------------------------
(* find_units, one step per strategy *)

RESULT_CAP == 20

\* phrases = extract_search_phrases(prop)
Extract ==
    /\ pc = "call"
    /\ phrases' = extract_search_phrases(prop)
    /\ pc' = "extracted"
    /\ UNCHANGED <<prop, db, results, qlog, score, ret, retpos>>
    /\ UNCHANGED <<appVars, etlVars>>

\* if not phrases: return []
NoPhrases ==
    /\ pc = "extracted"
    /\ phrases = <<>>
    /\ ret' = <<>>
    /\ retpos' = <<>>
    /\ pc' = "done"
    /\ UNCHANGED <<prop, db, phrases, results, qlog, score>>
    /\ UNCHANGED <<appVars, etlVars>>

\* prop.get("community") or prop.get("sub_community", "")
CommunityOf(p) == IF p.community # <<>> THEN p.community ELSE p.sub_community

\* Fault variant of Strategy0: find_units without `if not phrases: return []`.
Strategy0NoPhraseGuard ==
    /\ pc = "extracted"
    /\ LET zone      == prop.dld_zone_name
           community == CommunityOf(prop)
           rows      == SelectLike2(db, "area_name_en", Lower(zone),
                                    "project_name_en", Lower(community), LIMIT_200)
       IN  IF zone # <<>> /\ community # <<>>
           THEN /\ qlog' = Append(qlog, Issued(0, "zone+community", rows))
                /\ results' = results \o rows
           ELSE UNCHANGED <<qlog, results>>
    /\ pc' = "s0_master"
    /\ UNCHANGED <<prop, db, phrases, score, ret, retpos>>
    /\ UNCHANGED <<appVars, etlVars>>

\* Strategy 0, first query: zone and community
Strategy0 ==
    /\ pc = "extracted"
    /\ phrases # <<>>
    /\ LET zone      == prop.dld_zone_name
           community == CommunityOf(prop)
           rows      == SelectLike2(db, "area_name_en", Lower(zone),
                                    "project_name_en", Lower(community), LIMIT_200)
       IN  IF zone # <<>> /\ community # <<>>
           THEN /\ qlog' = Append(qlog, Issued(0, "zone+community", rows))
                /\ results' = results \o rows
           ELSE UNCHANGED <<qlog, results>>
    /\ pc' = "s0_master"
    /\ UNCHANGED <<prop, db, phrases, score, ret, retpos>>
    /\ UNCHANGED <<appVars, etlVars>>

\* Fault variant of Strategy0Master: the retry is nested in the community
\* branch, so it runs only after the zone and community query.
Strategy0MasterNested ==
    /\ pc = "s0_master"
    /\ LET zone      == prop.dld_zone_name
           community == CommunityOf(prop)
           master    == prop.master_community
           rows      == SelectLike2(db, "area_name_en", Lower(zone),
                                    "master_project_en", Lower(master), LIMIT_200)
       IN  IF results = <<>> /\ zone # <<>> /\ community # <<>> /\ master # <<>>
           THEN /\ qlog' = Append(qlog, Issued(0, "zone+master", rows))
                /\ results' = results \o rows
           ELSE UNCHANGED <<qlog, results>>
    /\ pc' = "s1"
    /\ UNCHANGED <<prop, db, phrases, score, ret, retpos>>
    /\ UNCHANGED <<appVars, etlVars>>

\* Strategy 0, second query: zone and master community
Strategy0Master ==
    /\ pc = "s0_master"
    /\ LET zone   == prop.dld_zone_name
           master == prop.master_community
           rows   == SelectLike2(db, "area_name_en", Lower(zone),
                                 "master_project_en", Lower(master), LIMIT_200)
       IN  IF results = <<>> /\ zone # <<>> /\ master # <<>>
           THEN /\ qlog' = Append(qlog, Issued(0, "zone+master", rows))
                /\ results' = results \o rows
           ELSE UNCHANGED <<qlog, results>>
    /\ pc' = "s1"
    /\ UNCHANGED <<prop, db, phrases, score, ret, retpos>>
    /\ UNCHANGED <<appVars, etlVars>>

\* Strategy 1: every phrase against project_name_en
Strategy1 ==
    /\ pc = "s1"
    /\ LET log == PhraseScan(db, 1, "project_name_en", phrases, -1, LIMIT_100)
       IN  /\ qlog' = qlog \o log
           /\ results' = results \o Found(log)
    /\ pc' = "s2"
    /\ UNCHANGED <<prop, db, phrases, score, ret, retpos>>
    /\ UNCHANGED <<appVars, etlVars>>

\* Strategy 2: the (master, project) splits of the URL location
Strategy2 ==
    /\ pc = "s2"
    /\ LET url_loc == prop.url_location
           log     == PairScan(db, Split(url_loc), 1)
       IN  IF results = <<>> /\ url_loc # <<>>
           THEN /\ qlog' = qlog \o log
                /\ results' = results \o Found(log)
           ELSE UNCHANGED <<qlog, results>>
    /\ pc' = "s3"
    /\ UNCHANGED <<prop, db, phrases, score, ret, retpos>>
    /\ UNCHANGED <<appVars, etlVars>>

\* Strategy 3: the phrases against master_project_en
Strategy3 ==
    /\ pc = "s3"
    /\ LET log == PhraseScan(db, 3, "master_project_en", phrases, 3, LIMIT_200)
       IN  IF results = <<>>
           THEN /\ qlog' = qlog \o log
                /\ results' = results \o Found(log)
           ELSE UNCHANGED <<qlog, results>>
    /\ pc' = "s4"
    /\ UNCHANGED <<prop, db, phrases, score, ret, retpos>>
    /\ UNCHANGED <<appVars, etlVars>>

\* Strategy 4: the phrases against area_name_en
Strategy4 ==
    /\ pc = "s4"
    /\ LET log == PhraseScan(db, 4, "area_name_en", phrases, 3, LIMIT_200)
       IN  IF results = <<>>
           THEN /\ qlog' = qlog \o log
                /\ results' = results \o Found(log)
           ELSE UNCHANGED <<qlog, results>>
    /\ pc' = "s5"
    /\ UNCHANGED <<prop, db, phrases, score, ret, retpos>>
    /\ UNCHANGED <<appVars, etlVars>>

\* Strategy 5: the significant words against project_name_en
Strategy5 ==
    /\ pc = "s5"
    /\ LET log == PhraseScan(db, 5, "project_name_en", SignificantWords(phrases),
                             -1, LIMIT_100)
       IN  IF results = <<>>
           THEN /\ qlog' = qlog \o log
                /\ results' = results \o Found(log)
           ELSE UNCHANGED <<qlog, results>>
    /\ pc' = "rank"
    /\ UNCHANGED <<prop, db, phrases, score, ret, retpos>>
    /\ UNCHANGED <<appVars, etlVars>>

\* rank_results, the scoring loop: d["_match_score"] for every row
ScoreRows ==
    /\ pc = "rank"
    /\ score' = Scores(results, prop, phrases)
    /\ pc' = "sort"
    /\ UNCHANGED <<prop, db, phrases, results, qlog, ret, retpos>>
    /\ UNCHANGED <<appVars, etlVars>>

\* Fault variant of Return: the list is cut to 20 before it is deduplicated.
ReturnTruncateFirst ==
    /\ pc = "sort"
    /\ retpos' = DedupOrder(results, Take(SortDesc(score, <<>>, 1), RESULT_CAP), <<>>)
    /\ ret' = RankedList(results, score, retpos')
    /\ pc' = "done"
    /\ UNCHANGED <<prop, db, phrases, results, qlog, score>>
    /\ UNCHANGED <<appVars, etlVars>>

\* rank_results, sort and deduplicate, then find_units' return ...[:20]
Return ==
    /\ pc = "sort"
    /\ retpos' = Take(RankOrder(results, score), RESULT_CAP)
    /\ ret' = RankedList(results, score, retpos')
    /\ pc' = "done"
    /\ UNCHANGED <<prop, db, phrases, results, qlog, score>>
    /\ UNCHANGED <<appVars, etlVars>>

\* rank_results called on its own: sort and deduplicate, return unique
SortDedup ==
    /\ pc = "sort"
    /\ retpos' = RankOrder(results, score)
    /\ ret' = RankedList(results, score, retpos')
    /\ pc' = "ranked"
    /\ UNCHANGED <<prop, db, phrases, results, qlog, score>>
    /\ UNCHANGED <<appVars, etlVars>>

-----------------------------------------------------------------------------
(* The listings and stores the model explores *)

MaxRankRows == 3
BigRows == 22

EMPTY == <<>>
sFarmGardens1  == <<"F","a","r","m"," ","G","a","r","d","e","n","s"," ","1">>
sFarmGardens   == <<"F","a","r","m"," ","G","a","r","d","e","n","s">>
sFARMGARDENS   == <<"F","A","R","M"," ","G","A","R","D","E","N","S">>
sFarmGardens2  == <<"F","a","r","m"," ","G","a","r","d","e","n","s"," ","2">>
sTheValley     == <<"T","h","e"," ","V","a","l","l","e","y">>
sTheValleySp   == <<" ","T","h","e"," ","V","a","l","l","e","y"," ">>
sDubaiLand     == <<"D","u","b","a","i"," ","L","a","n","d">>
sNara          == <<"N","a","r","a">>
sWadi          == <<"W","a","d","i">>
sFarmHouse     == <<"F","a","r","m"," ","H","o","u","s","e">>
sBlank         == <<" "," ">>
sVilla         == <<"V","i","l","l","a">>
sUnit          == <<"U","n","i","t">>
sTownhouse     == <<"T","o","w","n","h","o","u","s","e">>
sStackedTownhouses == <<"S","t","a","c","k","e","d"," ","T","o","w","n","h","o","u","s","e","s">>
sHouse         == <<"H","o","u","s","e">>
sTitleFarm     == <<"L","u","x","u","r","y"," ","V","i","l","l","a"," ","i","n"," ","F","a","r","m"," ","G","a","r","d","e","n","s"," ","|"," ","D","u","b","a","i">>
sTitleVilla    == <<"S","t","u","n","n","i","n","g"," ","V","i","l","l","a"," ","f","o","r"," ","s","a","l","e">>
sUrlValleyFarm == <<"t","h","e"," ","v","a","l","l","e","y"," ","f","a","r","m"," ","g","a","r","d","e","n","s">>
sUrlMixed      == <<"T","h","e"," ","V","a","l","l","e","y"," ","F","a","r","m">>
sUrlShort      == <<"a","l"," "," ","b","a","r","s","h","a"," ","s","o","u","t","h">>
sHome          == <<"H","o","m","e">>
sJVC           == <<"J","V","C">>
sD3            == <<"D","3">>
sJLT           == <<"J","L","T">>
sTitleNara     == <<"N","a","r","a"," ","f","o","r"," ","s","a","l","e">>
sTitleB1       == <<"B","1"," ","-"," ","f","o","r"," ","r","e","n","t">>
sUrlJvc        == <<"j","v","c">>

\* the decimal digits of n >= 0
RECURSIVE NumStr(_)
NumStr(n) == IF n < 10 THEN <<Digits[n + 1]>> ELSE NumStr(n \div 10) \o <<Digits[(n % 10) + 1]>>

\* a listing: every key of the scraped dict the matching core reads; <<>> is
\* an absent (or empty) string, bedrooms is <<>> for None, area_sqft 0 for absent
Listing(sub, comm, master, zone, title, url, crumbs, ptype, beds, sqft) ==
    [sub_community |-> sub, community |-> comm, master_community |-> master,
     dld_zone_name |-> zone, title |-> title, og_title |-> EMPTY, name |-> EMPTY,
     url_location |-> url, breadcrumbs |-> crumbs,
     property_type |-> ptype, bedrooms |-> beds, area_sqft |-> sqft]

\* listings with short values: an abbreviation as address or zone, a title
\* of one meaningful token, a URL location of one short token
ShortListings ==
    { Listing(sub, EMPTY, EMPTY, zone, title, url, crumbs, EMPTY, <<>>, 0) :
        sub \in {EMPTY, sJVC},
        zone \in {EMPTY, sD3},
        title \in {EMPTY, sTitleNara, sTitleB1},
        url \in {EMPTY, sUrlJvc, sUrlShort},
        crumbs \in {<<>>, <<sJLT>>} }

\* the inputs of extract_search_phrases
PhraseListings ==
    { Listing(sub, comm, master, zone, title, url, crumbs, EMPTY, <<>>, 0) :
        sub \in {EMPTY, sFarmGardens1, sFarmGardens, sBlank},
        comm \in {EMPTY, sFarmGardens, sFARMGARDENS},
        master \in {EMPTY, sTheValley, sTheValleySp},
        zone \in {EMPTY, sDubaiLand},
        title \in {EMPTY, sTitleFarm, sTitleVilla},
        url \in {EMPTY, sUrlValleyFarm, sUrlMixed, sUrlShort},
        crumbs \in {<<>>, <<sHome, sTheValleySp, sFarmGardens1>>} }
    \cup ShortListings

\* the listings looked up
SearchListings ==
    { Listing(sub, comm, master, zone, EMPTY, url, <<>>, a[1], a[2], a[3]) :
        sub \in {EMPTY, sFarmGardens1},
        comm \in {EMPTY, sFarmGardens, sBlank},
        master \in {EMPTY, sTheValley},
        zone \in {EMPTY, sDubaiLand, sBlank},
        url \in {EMPTY, sUrlValleyFarm},
        a \in {<<EMPTY, <<>>, 0>>, <<sVilla, <<4>>, 3800>>} }

\* a row of table units: the columns the matching core reads
Row(project, master, area, ptype, subtype, rooms, actual_area, unit, land) ==
    [project_name_en |-> project, master_project_en |-> master, area_name_en |-> area,
     property_type_en |-> ptype, property_sub_type_en |-> subtype,
     rooms |-> rooms, actual_area |-> actual_area,
     unit_number |-> unit, land_number |-> land]

rowVilla    == Row(sFarmGardens1, sTheValley, sDubaiLand, sVilla, EMPTY, <<"4">>,
                   <<"3","5","0">>, <<"1","2">>, <<"7">>)
\* the same business key as rowVilla, other attributes
rowVillaAlt == Row(sFarmGardens1, sTheValley, sDubaiLand, sUnit, sHouse, <<"4"," ","B","/","R">>,
                   <<"1","2","0">>, <<"1","2">>, <<"7">>)
\* rowVilla's neighbour: another unit with the same attributes
rowVilla13  == Row(sFarmGardens1, sTheValley, sDubaiLand, sVilla, EMPTY, <<"4">>,
                   <<"3","5","0">>, <<"1","3">>, <<"7">>)
rowGardens2 == Row(sFarmGardens2, sTheValley, sDubaiLand, sVilla, EMPTY, <<"4",".","0">>,
                   <<"3","5","0",".","5">>, <<"1","2">>, <<"7">>)
rowNara     == Row(sNara, sTheValley, sWadi, sUnit, sStackedTownhouses, <<"2">>, <<"n","/","a">>,
                   <<"3">>, <<"9">>)
rowHouse    == Row(sFarmHouse, EMPTY, sDubaiLand, sUnit, sVilla, EMPTY, <<"9","0">>,
                   <<"5">>, <<"9">>)

StoreNone     == <<>>
\* holds rowVilla twice: the store may hold true duplicate rows
StoreValley   == <<rowVillaAlt, rowVilla, rowGardens2, rowVilla>>
StoreFallback == <<rowNara, rowHouse>>
\* BigRows distinct units of one project, then two rows that repeat a key
StoreBig ==
    [i \in 1..BigRows |->
        Row(sFarmGardens1, sTheValley, sDubaiLand,
            IF i % 2 = 0 THEN sVilla ELSE sUnit, EMPTY,
            IF i % 3 = 0 THEN <<"4">> ELSE <<"3">>,
            <<"3","5","0">>, NumStr(i), <<"7">>)]
    \o <<Row(sFarmGardens1, sTheValley, sDubaiLand, sVilla, EMPTY, <<"4">>,
             <<"3","5","0">>, NumStr(1), <<"7">>),
         Row(sFarmGardens1, sTheValley, sDubaiLand, sUnit, EMPTY, <<"1">>,
             EMPTY, NumStr(6), <<"7">>)>>

Stores == {StoreNone, StoreValley, StoreFallback, StoreBig}

\* the candidate lists rank_results is applied to
RowPool == {rowVilla, rowVillaAlt, rowVilla13, rowGardens2, rowNara, rowHouse}

RankInputs == UNION {[1..n -> RowPool] : n \in 0..MaxRankRows}

RankListings ==
    { Listing(EMPTY, sFarmGardens, sTheValley, zone, EMPTY, EMPTY, <<>>, a[1], a[2], a[3]) :
        zone \in {EMPTY, sDubaiLand},
        a \in {<<EMPTY, <<>>, 0>>, <<sVilla, <<4>>, 3800>>} }

\* the longest candidate list ranked for a listing of each property type
MaxTypeRows == 2

\* listings of each property type, and one without
TypeListings ==
    { Listing(EMPTY, sFarmGardens, sTheValley, EMPTY, EMPTY, EMPTY, <<>>, ptype, <<2>>, 0) :
        ptype \in {EMPTY, sVilla, sTownhouse} }

-----------------------------------------------------------------------------
(* The store file and its refresh: download_db_from_github(force=True) and   *)
(* _download_and_decompress.  Both callers pass force=True, which skips the  *)
(* age test.  dbfile is "absent", "old" or "new" (a complete snapshot),      *)
(* "empty" (opened for writing, nothing written), "partial" (some chunks     *)
(* written) or "other" (a complete file that is no SQLite database).         *)

\* what the downloaded asset can be: a gzipped SQLite database, a gzipped
\* file of another kind, or bytes that gzip cannot decompress
AssetKinds == {"sqlite", "other", "corrupt"}

\* the except branch of _download_and_decompress: both files are removed
RemoveBoth ==
    /\ dbfile' = "absent"
    /\ gzfile' = "absent"

\* the request for the release: it raises or the release has no such asset
\* (return False), or it answers (other than 200: the direct URL is tried).
\* No asset has been received in this call yet.
GetRelease ==
    /\ rpc = "release"
    /\ \E answer \in {"raises", "no_asset", "not_200", "asset"} :
          rpc' = IF answer \in {"raises", "no_asset"} THEN "ret_false" ELSE "download"
    /\ asset' = "none"
    /\ UNCHANGED <<dbfile, gzfile, dbconn, ui, ran, badges>>
    /\ UNCHANGED <<lookupVars, etlVars>>

\* requests.get(url, stream=True): it raises (the except branch), answers
\* other than 200 (return False), or the body starts to arrive
StartDownload ==
    /\ rpc = "download"
    /\ \/ /\ RemoveBoth
          /\ rpc' = "ret_false"
          /\ UNCHANGED asset
       \/ /\ rpc' = "ret_false"
          /\ UNCHANGED <<dbfile, gzfile, asset>>
       \/ /\ asset' \in AssetKinds
          /\ rpc' = "save"
          /\ UNCHANGED <<dbfile, gzfile>>
    /\ UNCHANGED <<dbconn, ui, ran, badges>>
    /\ UNCHANGED <<lookupVars, etlVars>>

\* # Save compressed: the chunks are written to DB_GZ_PATH, or the stream
\* breaks and the except branch runs
SaveGz ==
    /\ rpc = "save"
    /\ \/ /\ gzfile' = asset
          /\ rpc' = "decompress"
          /\ UNCHANGED dbfile
       \/ /\ RemoveBoth
          /\ rpc' = "ret_false"
    /\ UNCHANGED <<asset, dbconn, ui, ran, badges>>
    /\ UNCHANGED <<lookupVars, etlVars>>

\* # Decompress: open(DB_PATH, "wb") truncates the file in place
OpenDb ==
    /\ rpc = "decompress"
    /\ dbfile' = "empty"
    /\ rpc' = "copy"
    /\ UNCHANGED <<gzfile, asset, dbconn, ui, ran, badges>>
    /\ UNCHANGED <<lookupVars, etlVars>>

\* shutil.copyfileobj, the first chunks
CopyChunk ==
    /\ rpc = "copy"
    /\ dbfile = "empty"
    /\ gzfile # "corrupt"
    /\ dbfile' = "partial"
    /\ UNCHANGED <<gzfile, rpc, asset, dbconn, ui, ran, badges>>
    /\ UNCHANGED <<lookupVars, etlVars>>

\* shutil.copyfileobj, the last chunk
CopyEnd ==
    /\ rpc = "copy"
    /\ gzfile # "corrupt"
    /\ dbfile' = IF gzfile = "sqlite" THEN "new" ELSE "other"
    /\ rpc' = "remove_gz"
    /\ UNCHANGED <<gzfile, asset, dbconn, ui, ran, badges>>
    /\ UNCHANGED <<lookupVars, etlVars>>

\* shutil.copyfileobj raises: gzip rejects the bytes; the except branch runs
CopyFails ==
    /\ rpc = "copy"
    /\ gzfile = "corrupt"
    /\ RemoveBoth
    /\ rpc' = "ret_false"
    /\ UNCHANGED <<asset, dbconn, ui, ran, badges>>
    /\ UNCHANGED <<lookupVars, etlVars>>

\* # Cleanup .gz
RemoveGz ==
    /\ rpc = "remove_gz"
    /\ gzfile' = "absent"
    /\ rpc' = "validate"
    /\ UNCHANGED <<dbfile, asset, dbconn, ui, ran, badges>>
    /\ UNCHANGED <<lookupVars, etlVars>>

\* Fault variant of Validate: a file that is no SQLite database is left at
\* DB_PATH.
ValidateKeepsFile ==
    /\ rpc = "validate"
    /\ rpc' = IF dbfile = "new" THEN "ret_true" ELSE "ret_false"
    /\ UNCHANGED <<dbfile, gzfile, asset, dbconn, ui, ran, badges>>
    /\ UNCHANGED <<lookupVars, etlVars>>

\* # Validate it's a real SQLite file: if not, DB_PATH is removed
Validate ==
    /\ rpc = "validate"
    /\ IF dbfile = "new"
       THEN /\ rpc' = "ret_true"
            /\ UNCHANGED dbfile
       ELSE /\ dbfile' = "absent"
            /\ rpc' = "ret_false"
    /\ UNCHANGED <<gzfile, asset, dbconn, ui, ran, badges>>
    /\ UNCHANGED <<lookupVars, etlVars>>

-----------------------------------------------------------------------------
(* The page: one run of main() in a session whose get_db cache is empty.     *)
(* pc is "main", "first_load", "sidebar", "updating", "input", "get_db",     *)
(* "scrape", then find_units' positions, then "end".                         *)

CARDS_SHOWN == 10

\* Fault variant of Badge: the thresholds of the earlier 40 / 20 scheme.
BadgeOldThresholds(s) ==
    IF s > 10 * 40 THEN "high"
    ELSE IF s > 10 * 20 THEN "medium"
    ELSE "low"

\* render_card's badge for a score (in tenths)
Badge(s) ==
    IF s > 10 * 50 THEN "high"
    ELSE IF s > 10 * 25 THEN "medium"
    ELSE "low"

\* the listings scrape_property_finder returns to main
MainListings ==
    { Listing(EMPTY, EMPTY, EMPTY, EMPTY, EMPTY, EMPTY, <<>>, EMPTY, <<>>, 0),
      Listing(EMPTY, EMPTY, EMPTY, EMPTY, EMPTY, sUrlValleyFarm, <<>>, sVilla, <<4>>, 3800),
      Listing(sFarmGardens1, sFarmGardens, sTheValley, sDubaiLand, EMPTY, EMPTY, <<>>,
              sVilla, <<4>>, 3800) }

\* if not os.path.exists(DB_PATH): download_db_from_github(force=True)
FirstLoad ==
    /\ pc = "main"
    /\ IF dbfile = "absent"
       THEN /\ rpc' = "release"
            /\ pc' = "first_load"
       ELSE /\ pc' = "sidebar"
            /\ UNCHANGED rpc
    /\ UNCHANGED <<prop, db, phrases, results, qlog, score, ret, retpos>>
    /\ UNCHANGED <<dbfile, gzfile, asset, dbconn, ui, ran, badges, etlVars>>

\* the first-load download returned; main ignores its result
FirstLoadDone ==
    /\ pc = "first_load"
    /\ rpc \in {"ret_true", "ret_false"}
    /\ rpc' = "idle"
    /\ pc' = "sidebar"
    /\ UNCHANGED <<prop, db, phrases, results, qlog, score, ret, retpos>>
    /\ UNCHANGED <<dbfile, gzfile, asset, dbconn, ui, ran, badges, etlVars>>

\* render_sidebar: the Update Now button was clicked or not
Sidebar ==
    /\ pc = "sidebar"
    /\ \E clicked \in BOOLEAN :
          IF clicked
          THEN /\ rpc' = "release"
               /\ pc' = "updating"
          ELSE /\ pc' = "input"
               /\ UNCHANGED rpc
    /\ UNCHANGED <<prop, db, phrases, results, qlog, score, ret, retpos>>
    /\ UNCHANGED <<dbfile, gzfile, asset, dbconn, ui, ran, badges, etlVars>>

\* render_sidebar after the download: get_db.clear() and st.rerun(), which
\* ends this run, or the error message
UpdateDone ==
    /\ pc = "updating"
    /\ rpc \in {"ret_true", "ret_false"}
    /\ rpc' = "idle"
    /\ IF rpc = "ret_true"
       THEN /\ dbconn' = "unset"
            /\ ui' = "updated"
            /\ pc' = "end"
       ELSE /\ ui' = "download_failed"
            /\ pc' = "input"
            /\ UNCHANGED dbconn
    /\ UNCHANGED <<prop, db, phrases, results, qlog, score, ret, retpos>>
    /\ UNCHANGED <<dbfile, gzfile, asset, ran, badges, etlVars>>

\* `if btn and url:` and the test of the URL.  A run is started by one
\* click: Find Unit Number is not clicked in the run of an Update Now click.
Input ==
    /\ pc = "input"
    /\ \E btn \in BOOLEAN : \E url \in {"", "other", "propertyfinder"} :
          /\ ui = "download_failed" => ~btn
          /\ IF ~(btn /\ url # "")
             THEN /\ pc' = "end"
                  /\ UNCHANGED ui
             ELSE IF url # "propertyfinder"
             THEN /\ ui' = "invalid_url"
                  /\ pc' = "end"
             ELSE /\ pc' = "get_db"
                  /\ UNCHANGED ui
    /\ UNCHANGED <<prop, db, phrases, results, qlog, score, ret, retpos>>
    /\ UNCHANGED <<dbfile, gzfile, rpc, asset, dbconn, ran, badges, etlVars>>

\* get_db(): None when there is no file at DB_PATH; a value in the cache is
\* returned as it is
OpenedStore ==
    IF dbconn # "unset" THEN dbconn
    ELSE IF dbfile = "absent" THEN "none" ELSE "open"

\* Fault variant of GetDb: main goes on to scrape without `if not conn`.
GetDbUnchecked ==
    /\ pc = "get_db"
    /\ dbconn' = OpenedStore
    /\ pc' = "scrape"
    /\ UNCHANGED <<prop, db, phrases, results, qlog, score, ret, retpos>>
    /\ UNCHANGED <<dbfile, gzfile, rpc, asset, ui, ran, badges, etlVars>>

\* conn = get_db(); if not conn: the No database error, return
GetDb ==
    /\ pc = "get_db"
    /\ dbconn' = OpenedStore
    /\ IF dbconn' = "none"
       THEN /\ ui' = "no_database"
            /\ pc' = "end"
       ELSE /\ pc' = "scrape"
            /\ UNCHANGED ui
    /\ UNCHANGED <<prop, db, phrases, results, qlog, score, ret, retpos>>
    /\ UNCHANGED <<dbfile, gzfile, rpc, asset, ran, badges, etlVars>>

\* prop = scrape_property_finder(url); an error ends the run, a listing goes
\* to find_units
Scrape ==
    /\ pc = "scrape"
    /\ ran' = ran \cup {"scrape"}
    /\ \/ /\ ui' = "scrape_error"
          /\ pc' = "end"
          /\ UNCHANGED prop
       \/ /\ prop' \in MainListings
          /\ pc' = "call"
          /\ UNCHANGED ui
    /\ UNCHANGED <<db, phrases, results, qlog, score, ret, retpos>>
    /\ UNCHANGED <<dbfile, gzfile, rpc, asset, dbconn, badges, etlVars>>

\* after find_units: the cards of matches[:10], or the No matches warning
ShowMatches ==
    /\ pc = "done"
    /\ ui' = IF ret # <<>> THEN "matches" ELSE "no_matches"
    /\ badges' = [i \in DOMAIN Take(ret, CARDS_SHOWN) |-> Badge(ret[i]["_match_score"])]
    /\ pc' = "end"
    /\ UNCHANGED <<prop, db, phrases, results, qlog, score, ret, retpos>>
    /\ UNCHANGED <<dbfile, gzfile, rpc, asset, dbconn, ran, etlVars>>

-----------------------------------------------------------------------------
(* convert_csv_to_sqlite of src/convert_csv_to_db.py *)

\* the characters the class [a-zA-Z0-9_] holds
IsWordChar(c) ==
    \/ c = "_"
    \/ IsDigit(c)
    \/ \E i \in DOMAIN UpperChars : UpperChars[i] = c
    \/ \E i \in DOMAIN LowerChars : LowerChars[i] = c

\* re.sub(r"_+", "_", s)
RECURSIVE CollapseUnderscores(_)
CollapseUnderscores(s) ==
    IF s = <<>> THEN <<>>
    ELSE IF Len(s) >= 2 /\ s[1] = "_" /\ s[2] = "_" THEN CollapseUnderscores(Tail(s))
    ELSE <<Head(s)>> \o CollapseUnderscores(Tail(s))

\* s.strip("_")
RECURSIVE StripUnderscores(_)
StripUnderscores(s) ==
    IF s # <<>> /\ Head(s) = "_" THEN StripUnderscores(Tail(s))
    ELSE IF s # <<>> /\ s[Len(s)] = "_" THEN StripUnderscores(SubSeq(s, 1, Len(s) - 1))
    ELSE s

sColUnknown == <<"c","o","l","_","u","n","k","n","o","w","n">>

sanitize_column_name(name) ==
    LET stripped == Strip(name)
        subbed   == [i \in 1..Len(stripped) |->
                        IF IsWordChar(stripped[i]) THEN stripped[i] ELSE "_"]
        safe     == Lower(StripUnderscores(CollapseUnderscores(subbed)))
    IN  IF safe # <<>> THEN safe ELSE sColUnknown

\* str(n) of a count
RECURSIVE Str(_)
Str(n) ==
    IF n < 10 THEN <<Digits[n + 1]>>
    ELSE Str(n \div 10) \o <<Digits[(n % 10) + 1]>>

\* the loop over safe_columns: a name seen before gets the suffix _<count>
RECURSIVE UniqueColumns(_, _, _)
UniqueColumns(safe_columns, seen, unique) ==
    IF safe_columns = <<>> THEN unique
    ELSE LET col == Head(safe_columns)
         IN  IF col \in DOMAIN seen
             THEN UniqueColumns(Tail(safe_columns),
                                [seen EXCEPT ![col] = @ + 1],
                                Append(unique, col \o <<"_">> \o Str(seen[col] + 1)))
             ELSE UniqueColumns(Tail(safe_columns),
                                [c \in DOMAIN seen \cup {col} |->
                                    IF c = col THEN 0 ELSE seen[c]],
                                Append(unique, col))

\* raw_columns, safe_columns and unique_columns of the header
DetectColumns ==
    /\ pc = "etl"
    /\ LET raw_columns  == [i \in DOMAIN csv[1] |-> Strip(csv[1][i])]
           safe_columns == [i \in DOMAIN raw_columns |->
                               sanitize_column_name(raw_columns[i])]
       IN  unique_columns' = UniqueColumns(safe_columns, <<>>, <<>>)
    /\ pc' = "create"
    /\ UNCHANGED <<prop, db, phrases, results, qlog, score, ret, retpos>>
    /\ UNCHANGED <<appVars, csv, units, line_num>>

\* SQLite refuses a CREATE TABLE that names a column twice
DuplicateColumn(columns) ==
    \E i, j \in DOMAIN columns : i < j /\ columns[i] = columns[j]

\* cursor.execute(create_sql): the sqlite3.OperationalError of a duplicate
\* column name is not caught and ends the conversion
CreateTable ==
    /\ pc = "create"
    /\ \/ /\ DuplicateColumn(unique_columns)
          /\ pc' = "etl_failed"
          /\ UNCHANGED <<units, line_num>>
       \/ /\ ~DuplicateColumn(unique_columns)
          /\ units' = <<>>
          /\ line_num' = 2
          /\ pc' = "rows"
    /\ UNCHANGED <<prop, db, phrases, results, qlog, score, ret, retpos>>
    /\ UNCHANGED <<appVars, csv, unique_columns>>

\* the row padded with "" or trimmed to n cells
Fit(row, n) ==
    IF Len(row) < n THEN row \o [i \in 1..(n - Len(row)) |-> <<>>]
    ELSE SubSeq(row, 1, n)

\* one pass of the row loop; the batch reaches the table in the order read
ReadRow ==
    /\ pc = "rows"
    /\ line_num <= Len(csv)
    /\ LET row == Fit(csv[line_num], Len(unique_columns))
       IN  IF \A i \in DOMAIN row : Strip(row[i]) = <<>>
           THEN units' = units
           ELSE units' = Append(units, [i \in DOMAIN row |-> Strip(row[i])])
    /\ line_num' = line_num + 1
    /\ UNCHANGED <<prop, db, pc, phrases, results, qlog, score, ret, retpos>>
    /\ UNCHANGED <<appVars, csv, unique_columns>>

\* the reader is exhausted: the remaining batch is inserted and committed
EndOfFile ==
    /\ pc = "rows"
    /\ line_num > Len(csv)
    /\ pc' = "etl_done"
    /\ UNCHANGED <<prop, db, phrases, results, qlog, score, ret, retpos>>
    /\ UNCHANGED <<appVars, etlVars>>

-----------------------------------------------------------------------------
(* Specifications *)

\* the store file is in place and open, no refresh is running, the page is empty
AppAtRest ==
    /\ dbfile = "old"
    /\ gzfile = "absent"
    /\ rpc = "idle"
    /\ asset = "none"
    /\ dbconn = "open"
    /\ ui = "none"
    /\ ran = {}
    /\ badges = <<>>

\* no conversion is running
EtlAtRest ==
    /\ csv = <<>>
    /\ units = <<>>
    /\ unique_columns = <<>>
    /\ line_num = 0

\* a lookup: find_units(conn, prop) on a store and a listing
Init ==
    /\ prop \in SearchListings
    /\ db \in Stores
    /\ pc = "call"
    /\ phrases = <<>>
    /\ results = <<>>
    /\ qlog = <<>>
    /\ score = <<>>
    /\ ret = <<>>
    /\ retpos = <<>>
    /\ AppAtRest
    /\ EtlAtRest

Next ==
    \/ Extract
    \/ NoPhrases
    \/ Strategy0
    \/ Strategy0Master
    \/ Strategy1
    \/ Strategy2
    \/ Strategy3
    \/ Strategy4
    \/ Strategy5
    \/ ScoreRows
    \/ Return

Spec == Init /\ [][Next]_vars

\* one run of main(): the store file is there or not, the cache is empty
InitMain ==
    /\ prop = Listing(EMPTY, EMPTY, EMPTY, EMPTY, EMPTY, EMPTY, <<>>, EMPTY, <<>>, 0)
    /\ db \in {StoreNone, StoreValley, StoreFallback}
    /\ pc = "main"
    /\ phrases = <<>>
    /\ results = <<>>
    /\ qlog = <<>>
    /\ score = <<>>
    /\ ret = <<>>
    /\ retpos = <<>>
    /\ dbfile \in {"absent", "old"}
    /\ gzfile = "absent"
    /\ rpc = "idle"
    /\ asset = "none"
    /\ dbconn = "unset"
    /\ ui = "none"
    /\ ran = {}
    /\ badges = <<>>
    /\ EtlAtRest

NextMain ==
    \/ FirstLoad
    \/ FirstLoadDone
    \/ Sidebar
    \/ UpdateDone
    \/ GetRelease
    \/ StartDownload
    \/ SaveGz
    \/ OpenDb
    \/ CopyChunk
    \/ CopyEnd
    \/ CopyFails
    \/ RemoveGz
    \/ Validate
    \/ Input
    \/ GetDb
    \/ Scrape
    \/ Extract
    \/ NoPhrases
    \/ Strategy0
    \/ Strategy0Master
    \/ Strategy1
    \/ Strategy2
    \/ Strategy3
    \/ Strategy4
    \/ Strategy5
    \/ ScoreRows
    \/ Return
    \/ ShowMatches

SpecMain == InitMain /\ [][NextMain]_vars

\* extract_search_phrases(prop) on its own
InitPhrases ==
    /\ prop \in PhraseListings
    /\ db = StoreNone
    /\ pc = "call"
    /\ phrases = <<>>
    /\ results = <<>>
    /\ qlog = <<>>
    /\ score = <<>>
    /\ ret = <<>>
    /\ retpos = <<>>
    /\ AppAtRest
    /\ EtlAtRest

NextPhrases == Extract

SpecPhrases == InitPhrases /\ [][NextPhrases]_vars

\* bounds of the CSV files converted
MaxColumns == 3
MaxCells == 3
MaxDataRows == 2

\* header cells: plain, to be sanitised, already carrying a suffix, nameless
HeaderCells == { <<"a">>, <<"A"," ">>, <<"a","_","1">>, <<"#">> }

\* data cells: blank or not
DataCells == { <<" ">>, <<"x"," ">> }

SeqsUpTo(S, lo, hi) == UNION { [1..n -> S] : n \in lo..hi }

CsvFiles ==
    { <<h>> \o rows : h \in SeqsUpTo(HeaderCells, 1, MaxColumns),
                      rows \in SeqsUpTo(SeqsUpTo(DataCells, 0, MaxCells), 0, MaxDataRows) }

\* convert_csv_to_sqlite(csv_path, db_path) at entry
InitEtl ==
    /\ prop = Listing(EMPTY, EMPTY, EMPTY, EMPTY, EMPTY, EMPTY, <<>>, EMPTY, <<>>, 0)
    /\ db = StoreNone
    /\ pc = "etl"
    /\ phrases = <<>>
    /\ results = <<>>
    /\ qlog = <<>>
    /\ score = <<>>
    /\ ret = <<>>
    /\ retpos = <<>>
    /\ AppAtRest
    /\ csv \in CsvFiles
    /\ units = <<>>
    /\ unique_columns = <<>>
    /\ line_num = 0

NextEtl == DetectColumns \/ CreateTable \/ ReadRow \/ EndOfFile

SpecEtl == InitEtl /\ [][NextEtl]_vars

\* rank_results(rows, prop, search_phrases) at entry, for the property types
InitType ==
    /\ prop \in TypeListings
    /\ db = StoreNone
    /\ pc = "rank"
    /\ phrases = extract_search_phrases(prop)
    /\ results \in UNION {[1..n -> RowPool] : n \in 0..MaxTypeRows}
    /\ qlog = <<>>
    /\ score = <<>>
    /\ ret = <<>>
    /\ retpos = <<>>
    /\ AppAtRest
    /\ EtlAtRest

NextType == ScoreRows \/ SortDedup

SpecType == InitType /\ [][NextType]_vars

\* the highest score drawn for a card, in tenths
MaxScoreTenths == 1300

\* render_card(match, i) for one match of any score
InitCard ==
    /\ prop = Listing(EMPTY, EMPTY, EMPTY, EMPTY, EMPTY, EMPTY, <<>>, EMPTY, <<>>, 0)
    /\ db = StoreNone
    /\ pc = "done"
    /\ phrases = <<>>
    /\ results = <<rowNara>>
    /\ qlog = <<>>
    /\ score \in [{1} -> 0..MaxScoreTenths]
    /\ retpos = <<1>>
    /\ ret = RankedList(results, score, retpos)
    /\ AppAtRest
    /\ EtlAtRest

NextCard == ShowMatches

SpecCard == InitCard /\ [][NextCard]_vars

\* rank_results(rows, prop, phrases) on its own
InitRank ==
    /\ prop \in RankListings
    /\ db = StoreNone
    /\ pc = "rank"
    /\ phrases = extract_search_phrases(prop)
    /\ results \in RankInputs
    /\ qlog = <<>>
    /\ score = <<>>
    /\ ret = <<>>
    /\ retpos = <<>>
    /\ AppAtRest
    /\ EtlAtRest

NextRank == ScoreRows \/ SortDedup

SpecRank == InitRank /\ [][NextRank]_vars

-----------------------------------------------------------------------------
(* Properties of find_units' strategy chain *)

\* the positions of the query log whose query returned rows
Hits == {i \in DOMAIN qlog : qlog[i].rows # <<>>}

\* C1: once a query of Strategy k has returned rows, no query of a later
\* strategy k+1..5 is issued in that lookup.
C1_NoLaterStrategyQueried ==
    \A i \in DOMAIN qlog : \A j \in DOMAIN qlog :
        (i < j /\ qlog[i].rows # <<>>) => qlog[j].strategy <= qlog[i].strategy

\* C2: the candidate list handed to the ranker is the row list of exactly one
\* successful query (and is empty when no query returned rows).
C2_OneQueryContributes ==
    pc \in {"rank", "sort", "done"} =>
        /\ Cardinality(Hits) <= 1
        /\ \A i \in Hits : results = qlog[i].rows
        /\ (Hits = {} => results = <<>>)

-----------------------------------------------------------------------------
(* Properties of rank_results and of the returned list *)

\* the business key of a returned entry, read from its own fields
BusinessKey(e) == <<e.unit_number, e.land_number, e.project_name_en>>

\* rank_results, or find_units, has returned
Returned == pc \in {"ranked", "done"}

\* every returned entry is the candidate at its retrieval position, carrying
\* that candidate's score
EntriesAreCandidates ==
    /\ Len(retpos) = Len(ret)
    /\ \A i \in DOMAIN ret :
          /\ retpos[i] \in DOMAIN results
          /\ BusinessKey(ret[i]) = BusinessKey(results[retpos[i]])
          /\ ret[i]["_match_score"] = score[retpos[i]]

\* C3: no two entries of the returned list share the triple
\* (unit_number, land_number, project_name).
C3_UniqueBusinessKeys ==
    Returned =>
        \A i \in DOMAIN ret : \A j \in DOMAIN ret :
            i # j => BusinessKey(ret[i]) # BusinessKey(ret[j])

\* rank_results has returned for candidates that hold the same row twice and
\* a third row with that row's business key
C3_Witness ==
    /\ pc = "ranked"
    /\ \E i \in DOMAIN results : \E j \in DOMAIN results : \E k \in DOMAIN results :
          /\ i < j /\ results[i] = results[j]
          /\ results[k] # results[i]
          /\ BusinessKey(results[k]) = BusinessKey(results[i])
    /\ Len(ret) >= 1

\* C4: for every business key among the candidates, the returned list holds
\* an entry of that key whose score is >= the score of every candidate of the
\* key, and which is the first retrieved among the candidates with that score.
C4_KeepsBestOccurrence ==
    pc = "ranked" =>
        /\ EntriesAreCandidates
        /\ \A c \in DOMAIN results :
              \E i \in DOMAIN ret :
                  /\ BusinessKey(ret[i]) = BusinessKey(results[c])
                  /\ ret[i]["_match_score"] >= score[c]
                  /\ (ret[i]["_match_score"] = score[c] => retpos[i] <= c)

\* a key occurs three times: first with a lower score, then twice with the
\* best score, and the kept entry is the first occurrence of the best score
C4_Witness ==
    /\ pc = "ranked"
    /\ Len(results) = 3
    /\ BusinessKey(results[1]) = BusinessKey(results[2])
    /\ BusinessKey(results[2]) = BusinessKey(results[3])
    /\ score[1] < score[2]
    /\ score[2] = score[3]
    /\ retpos = <<2>>

\* C5: the returned list is in descending score order, and entries of equal
\* score stand in the order in which they were retrieved.
C5_StableDescending ==
    Returned =>
        /\ Len(retpos) = Len(ret)
        /\ \A i \in DOMAIN ret : \A j \in DOMAIN ret :
              i < j =>
                  /\ ret[i]["_match_score"] >= ret[j]["_match_score"]
                  /\ (ret[i]["_match_score"] = ret[j]["_match_score"]
                         => retpos[i] < retpos[j])

\* a lower-scored candidate was retrieved first and two candidates of
\* different keys tie: the list moved the first behind and kept the tie's order
C5_Witness ==
    /\ pc = "ranked"
    /\ Len(results) = 3
    /\ score[1] < score[2]
    /\ score[2] = score[3]
    /\ BusinessKey(results[2]) # BusinessKey(results[3])
    /\ BusinessKey(results[1]) # BusinessKey(results[2])
    /\ BusinessKey(results[1]) # BusinessKey(results[3])
    /\ retpos = <<2, 3, 1>>

\* the business keys among the candidates
CandidateKeys == {BusinessKey(results[c]) : c \in DOMAIN results}

\* C6: find_units returns at most 20 entries: min(20, n) of them for n
\* distinct business keys, every one a candidate with its score, and every
\* candidate whose key is not returned stands behind all returned entries in
\* the ranking (lower score, or equal score and retrieved later).
C6_CappedPrefix ==
    pc = "done" =>
        /\ Len(ret) <= 20
        /\ Len(ret) = (IF Cardinality(CandidateKeys) < 20
                       THEN Cardinality(CandidateKeys) ELSE 20)
        /\ EntriesAreCandidates
        /\ \A c \in DOMAIN results :
              (\A i \in DOMAIN ret : BusinessKey(ret[i]) # BusinessKey(results[c]))
              => \A i \in DOMAIN ret :
                     \/ ret[i]["_match_score"] > score[c]
                     \/ ret[i]["_match_score"] = score[c] /\ retpos[i] < c

\* a lookup that found more than 20 distinct keys, some of them twice, and
\* returned 20 entries
C6_Witness ==
    /\ pc = "done"
    /\ Cardinality(CandidateKeys) > 20
    /\ Len(results) > Cardinality(CandidateKeys)
    /\ Len(ret) = 20

\* C7: a lookup whose phrase list is empty issues no query, and a lookup
\* whose phrase list is empty or whose queries all returned no rows returns
\* the empty list.
C7_EmptyResult ==
    /\ (phrases = <<>> => qlog = <<>>)
    /\ (pc = "done" /\ (phrases = <<>> \/ Hits = {}) => ret = <<>>)

\* a lookup with phrases that queried strategies 1, 3, 4 and 5, found no row
\* and returned the empty list
C7_Witness ==
    /\ pc = "done"
    /\ phrases # <<>>
    /\ {1, 3, 4, 5} \subseteq {qlog[i].strategy : i \in DOMAIN qlog}
    /\ Hits = {}
    /\ ret = <<>>

-----------------------------------------------------------------------------
(* Properties of extract_search_phrases *)

\* a field value as the phrase list holds it
Norm(s) == Lower(Strip(s))

\* the phrase list begins with a, b, c
BeginsWith(a, b, c) ==
    Len(phrases) >= 3 /\ phrases[1] = a /\ phrases[2] = b /\ phrases[3] = c

\* C8 as claimed: sub_community, community and master_community present and
\* pairwise different make the list begin with their lower-cased (and
\* trimmed) values.
C8_AsClaimed ==
    (/\ pc = "extracted"
     /\ Norm(prop.sub_community) # <<>>
     /\ Norm(prop.community) # <<>>
     /\ Norm(prop.master_community) # <<>>
     /\ prop.sub_community # prop.community
     /\ prop.community # prop.master_community
     /\ prop.sub_community # prop.master_community)
    => BeginsWith(Norm(prop.sub_community), Norm(prop.community),
                  Norm(prop.master_community))

\* the three address fields are non-blank and pairwise different once trimmed
\* and lower-cased
DistinctAddress ==
    /\ Norm(prop.sub_community) # <<>>
    /\ Norm(prop.community) # <<>>
    /\ Norm(prop.master_community) # <<>>
    /\ Norm(prop.sub_community) # Norm(prop.community)
    /\ Norm(prop.community) # Norm(prop.master_community)
    /\ Norm(prop.sub_community) # Norm(prop.master_community)

\* C8, amended: when sub_community, community and master_community are
\* non-blank and pairwise different after trimming and lower-casing, the list
\* begins with the trimmed lower-cased sub_community, community and
\* master_community, whatever the other fields hold.
C8_AddressFirst ==
    (pc = "extracted" /\ DistinctAddress)
    => BeginsWith(Norm(prop.sub_community), Norm(prop.community),
                  Norm(prop.master_community))

\* the phrases were extracted from a listing with three distinct address
\* fields, one of them untrimmed, and with zone, title, URL location and
\* breadcrumbs present
C8_Witness ==
    /\ pc = "extracted"
    /\ DistinctAddress
    /\ prop.master_community # Strip(prop.master_community)
    /\ prop.dld_zone_name # <<>> /\ prop.title # <<>>
    /\ prop.url_location # <<>> /\ prop.breadcrumbs # <<>>
    /\ Len(phrases) > 3

\* the tokens of the URL location
UrlTokens == Split(prop.url_location)

\* the left and right joins of the URL tokens at split index k
LeftJoin(k) == Join(SubSeq(UrlTokens, 1, k))
RightJoin(k) == Join(SubSeq(UrlTokens, k + 1, Len(UrlTokens)))

\* C9 as claimed: every left and right join of at least 4 characters is a
\* member of the list.
C9_AsClaimed ==
    pc = "extracted" =>
        \A k \in 1..(Len(UrlTokens) - 1) :
            /\ (Len(LeftJoin(k)) >= 4 => LeftJoin(k) \in Range(phrases))
            /\ (Len(RightJoin(k)) >= 4 => RightJoin(k) \in Range(phrases))

\* C9, amended: for every split index k of the URL location's tokens, the
\* lower-cased left join and the lower-cased right join, whenever at least 4
\* characters long, are members of the list.
C9_SplitCoverage ==
    pc = "extracted" =>
        \A k \in 1..(Len(UrlTokens) - 1) :
            /\ (Len(LeftJoin(k)) >= 4 => Lower(LeftJoin(k)) \in Range(phrases))
            /\ (Len(RightJoin(k)) >= 4 => Lower(RightJoin(k)) \in Range(phrases))

\* the phrases were extracted from a URL location of four tokens whose middle
\* split gives two joins of at least 4 characters, both in the list
C9_Witness ==
    /\ pc = "extracted"
    /\ Len(UrlTokens) = 4
    /\ Len(LeftJoin(2)) >= 4 /\ Len(RightJoin(2)) >= 4
    /\ LeftJoin(2) \in Range(phrases)
    /\ RightJoin(2) \in Range(phrases)

\* the phrases the sources contributed, before deduplication
Contributed == ContributedPhrases(prop)

\* the contributed phrases as the list would hold them: trimmed, lower-cased
RECURSIVE NormAll(_)
NormAll(ps) == IF ps = <<>> THEN <<>> ELSE <<Norm(Head(ps))>> \o NormAll(Tail(ps))

\* the first place at which the value x occurs in the sequence cs
FirstContributed(cs, x) == Min({k \in DOMAIN cs : cs[k] = x})

\* the list holds only non-empty strings without upper-case letters and
\* without surrounding whitespace, holds no value twice, holds exactly the
\* non-blank values of cs, and orders them by their first place in cs
DedupInOrder(cs) ==
    /\ \A i \in DOMAIN phrases :
          /\ phrases[i] # <<>>
          /\ \A c \in Range(phrases[i]) : c \notin Range(UpperChars)
          /\ phrases[i][1] \notin Spaces
          /\ phrases[i][Len(phrases[i])] \notin Spaces
          /\ phrases[i] \in Range(cs)
    /\ \A k \in DOMAIN cs : cs[k] # <<>> => cs[k] \in Range(phrases)
    /\ \A i \in DOMAIN phrases : \A j \in DOMAIN phrases :
          i < j => /\ phrases[i] # phrases[j]
                   /\ FirstContributed(cs, phrases[i]) < FirstContributed(cs, phrases[j])

\* C10: the list holds only non-empty strings without upper-case letters and
\* without surrounding whitespace, holds no value twice, holds exactly the
\* non-blank contributed values, and orders them by their first contribution.
C10_DedupInOrder ==
    pc = "extracted" => Once(NormAll(Contributed), DedupInOrder)

\* a value was contributed twice in different spellings, with other values
\* between the two, and the list holds it once
C10_Witness ==
    /\ pc = "extracted"
    /\ \E k1 \in DOMAIN Contributed : \E k2 \in DOMAIN Contributed :
          /\ k1 + 1 < k2
          /\ Contributed[k1] # Contributed[k2]
          /\ Norm(Contributed[k1]) = Norm(Contributed[k2])
    /\ Len(phrases) >= 4

-----------------------------------------------------------------------------
(* Minimum phrase length *)

\* C11 as claimed: every phrase of the list has at least 4 characters.
C11_AsClaimed ==
    pc = "extracted" => \A i \in DOMAIN phrases : Len(phrases[i]) >= 4

\* the values the address hierarchy, the zone and the full URL location
\* contribute, as the list holds them
DirectValues ==
    {Norm(x) : x \in Range(AddressPhrases(prop))} \cup {Norm(prop.url_location)}

\* the value the title contributes, as the list holds it
TitleValues == {Norm(x) : x \in Range(TitlePhrases(prop))}

\* C11, amended: every phrase has at least 1 character; a phrase of fewer
\* than 3 characters is a value of the address hierarchy, the zone, the full
\* URL location or the title, and one of fewer than 2 characters is a value
\* of the address hierarchy, the zone or the full URL location: the URL
\* splits and the breadcrumbs contribute only values of 3 characters or more.
C11_MinLengthBySource ==
    pc = "extracted" =>
        \A i \in DOMAIN phrases :
            /\ Len(phrases[i]) >= 1
            /\ Len(phrases[i]) < 3 => phrases[i] \in DirectValues \cup TitleValues
            /\ Len(phrases[i]) < 2 => phrases[i] \in DirectValues

\* the phrases were extracted from a listing whose URL location has a split
\* of 2 characters, which is not in the list, while a zone of 2 characters
\* and a breadcrumb of 3 characters are
C11_Witness ==
    /\ pc = "extracted"
    /\ prop.url_location = sUrlShort
    /\ <<"a","l">> \notin Range(phrases)
    /\ Lower(sD3) \in Range(phrases)
    /\ Lower(sJLT) \in Range(phrases)

-----------------------------------------------------------------------------
(* Malformed numbers in rank_results *)

\* float(s) raises for the non-empty value s
Malformed(s) == s # <<>> /\ ~ParseFloat(s).ok

\* the row with its malformed rooms and actual_area values taken out
WithoutMalformed(d) ==
    [d EXCEPT !.rooms = IF Malformed(d.rooms) THEN EMPTY ELSE d.rooms,
              !.actual_area = IF Malformed(d.actual_area) THEN EMPTY ELSE d.actual_area]

\* C12: rank_results scores every candidate, and a candidate whose rooms or
\* actual_area value fails numeric coercion gets the score it would get with
\* that value absent: the failed term adds 0 and no other term changes.
C12_MalformedAddsNothing ==
    pc \in {"sort", "ranked"} =>
        /\ DOMAIN score = DOMAIN results
        /\ \A i \in DOMAIN results :
              score[i] = MatchScore(WithoutMalformed(results[i]), prop, phrases)

\* a list that holds a candidate with a malformed rooms value, one with a
\* malformed actual_area value and a well-formed one that earns both terms
\* was ranked for a listing that has bedrooms and area_sqft
C12_Witness ==
    /\ pc = "ranked"
    /\ prop.bedrooms # <<>> /\ prop.area_sqft # 0
    /\ \E i \in DOMAIN results : Malformed(results[i].rooms)
    /\ \E i \in DOMAIN results : Malformed(results[i].actual_area)
    /\ \E i \in DOMAIN results :
          BedPoints(prop, results[i]) = 10 /\ AreaPoints(prop, results[i]) = 12
    /\ Len(ret) = 3

-----------------------------------------------------------------------------
(* The store is unavailable *)

\* the positions at which main scrapes or searches
LookupPositions ==
    {"scrape", "call", "extracted", "s0_master", "s1", "s2", "s3", "s4", "s5",
     "rank", "sort", "done"}

-----------------------------------------------------------------------------
(* The returned entries and the store *)

\* every returned entry has the columns of a row of the store with the row's
\* values, and the score as its one further field
EntriesCarryRows ==
    \A i \in DOMAIN ret :
        \E k \in DOMAIN db :
            /\ results[retpos[i]] = db[k]
            /\ DOMAIN ret[i] = DOMAIN db[k] \cup {"_match_score"}
            /\ \A f \in DOMAIN db[k] : ret[i][f] = db[k][f]

\* C14: no step of a lookup changes the store, and every entry find_units
\* returns carries every field of the store row it came from with the row's
\* value, the match score being its only other field.
C14_RowsCarriedUnchanged ==
    [][db' = db /\ (pc' = "done" => EntriesCarryRows')]_vars

\* a lookup returned several entries, with different scores
C14_Witness ==
    /\ pc = "done"
    /\ Len(ret) >= 2
    /\ ret[1]["_match_score"] > ret[Len(ret)]["_match_score"]
    /\ ret[Len(ret)]["_match_score"] > 0

-----------------------------------------------------------------------------
(* The refresh of the store *)

\* a complete snapshot is at DB_PATH
CompleteSnapshot == dbfile \in {"old", "new"}

\* C15: a refresh replaces the store atomically.  A lookup may read DB_PATH
\* between any two steps of the refresh, so what it observes is dbfile: once
\* a complete snapshot is there, every step, of a refresh that fails
\* part-way too, leaves the previous or the new complete snapshot there,
\* never a missing, empty or partially written file.
C15_AtomicReplace ==
    [][CompleteSnapshot => CompleteSnapshot']_vars

-----------------------------------------------------------------------------
(* The match-strength bands of render_card *)

\* the band the thresholds 50 and 25 give a score in tenths
BandOf(s) ==
    { b \in {"high", "medium", "low"} :
        \/ b = "high" /\ s > 500
        \/ b = "medium" /\ 250 < s /\ s <= 500
        \/ b = "low" /\ s <= 250 }

\* C16: every match_score falls in exactly one band: above 50 high, above 25
\* and up to 50 medium, up to 25 low, so that 50 is medium and 25 is low.
C16_ExactlyOneBand ==
    pc = "end" =>
        \A i \in DOMAIN badges :
            /\ Cardinality(BandOf(ret[i]["_match_score"])) = 1
            /\ BandOf(ret[i]["_match_score"]) = {badges[i]}

C16_Witness ==
    /\ pc = "end"
    /\ badges # <<>>
    /\ ret[1]["_match_score"] \in {250, 500}
    /\ badges[1] \in {"low", "medium"}

-----------------------------------------------------------------------------
(* The table convert_csv_to_sqlite builds *)

\* the data rows of the CSV that are not entirely blank
NonBlankRows ==
    { n \in 2..Len(csv) : \E i \in DOMAIN csv[n] : Strip(csv[n][i]) # <<>> }

\* C17: the conversion stores every data row of the CSV that is not entirely
\* blank as one row of units and every column of the header as one column:
\* it ends with a table whose row count is the CSV's count of non-blank data
\* rows and whose column count is the header's column count.
C17_EveryRowEveryColumn ==
    /\ pc # "etl_failed"
    /\ pc = "etl_done" =>
          /\ Len(units) = Cardinality(NonBlankRows)
          /\ Len(unique_columns) = Len(csv[1])

-----------------------------------------------------------------------------
(* The order of the sources in the phrase list *)

\* the non-blank values of a list of contributed phrases, as the list holds them
NormSet(ps) == {Norm(x) : x \in Range(ps)} \ {<<>>}

\* what each source contributes for the listing
SourceValues ==
    [addr  |-> NormSet(AddressPhrases(prop)),
     title |-> NormSet(TitlePhrases(prop)),
     url   |-> NormSet(UrlPhrases(prop)),
     crumb |-> NormSet(CrumbPhrases(prop))]

\* the place of the value x in the returned list
PhrasePos(x) == CHOOSE i \in DOMAIN phrases : phrases[i] = x

UrlBeforeTitle(v) ==
    \A t \in v.title :
        t \notin v.url => \A u \in v.url : PhrasePos(u) < PhrasePos(t)

\* C18 as claimed: when the listing has a URL location and a usable title
\* that yield distinct phrases, every phrase derived from the URL location
\* precedes the title phrase in the returned list.
C18_AsClaimed ==
    pc = "extracted" => Once(SourceValues, UrlBeforeTitle)

TitleBeforeUrl(v) ==
    /\ \A t \in v.title :
          t \notin v.url => \A u \in v.url \ v.addr : PhrasePos(t) < PhrasePos(u)
    /\ \A a \in v.addr :
          \A x \in (v.title \cup v.url \cup v.crumb) \ v.addr :
              PhrasePos(a) < PhrasePos(x)
    /\ \A c \in v.crumb \ (v.addr \cup v.title \cup v.url) :
          \A x \in v.addr \cup v.title \cup v.url : PhrasePos(x) < PhrasePos(c)

\* C18, amended: the sources contribute in the order address hierarchy and
\* zone, title, URL location, breadcrumbs: when the listing has a URL location
\* and a usable title that yield distinct phrases, the title phrase precedes
\* every phrase derived from the URL location that the address hierarchy and
\* the zone did not contribute; the address and zone phrases precede every
\* phrase only another source contributed, and a phrase only the breadcrumbs
\* contributed follows the phrases of every other source.
C18_TitleBeforeUrl ==
    pc = "extracted" => Once(SourceValues, TitleBeforeUrl)

\* the listing has address, title, URL location and breadcrumb phrases; the
\* title phrase is no URL phrase and stands before a URL phrase, while some
\* URL phrase is an address phrase too
UrlAfterTitle(v) ==
    /\ v.addr # {} /\ v.crumb \ (v.addr \cup v.title \cup v.url) # {}
    /\ v.url \cap v.addr # {}
    /\ \E t \in v.title : \E u \in v.url \ v.addr :
          t \notin v.url /\ PhrasePos(t) < PhrasePos(u)

C18_Witness ==
    pc = "extracted" /\ Once(SourceValues, UrlAfterTitle)

-----------------------------------------------------------------------------
(* The title phrase *)

\* the tokens of the title that are no stop words and longer than 1 character
MeaningfulTokens == SelectSeq(ReSplitTitle(TitleOf(prop)), TitleKeep)

\* the phrase the meaningful tokens make, as the list holds it
TitlePhrase == Norm(Join(MeaningfulTokens))

\* the values the other sources contribute, as the list holds them
OtherValues ==
    NormSet(AddressPhrases(prop) \o UrlPhrases(prop) \o CrumbPhrases(prop))

\* C19 as claimed: a title-derived phrase is in the list only if at least 2
\* meaningful tokens remain; a title that reduces to a single meaningful
\* token contributes no phrase.
C19_AsClaimed ==
    pc = "extracted" =>
        (Len(MeaningfulTokens) = 1 /\ TitlePhrase \notin OtherValues
            => TitlePhrase \notin Range(phrases))

\* C19, amended: a title-derived phrase is in the list if and only if at
\* least 1 meaningful token remains; a title that reduces to a single
\* meaningful token contributes that token as its phrase, and a title with no
\* meaningful token contributes none.
C19_TitleNeedsOneToken ==
    pc = "extracted" =>
        /\ Len(MeaningfulTokens) >= 1 => TitlePhrase \in Range(phrases)
        /\ Len(MeaningfulTokens) = 1 =>
              Lower(MeaningfulTokens[1]) \in Range(phrases)
        /\ Len(MeaningfulTokens) = 0 =>
              \A i \in DOMAIN phrases : phrases[i] \in OtherValues

\* the title "Nara for sale" reduced to the one token "nara", which is in
\* the list although no other source contributed it
C19_Witness ==
    /\ pc = "extracted"
    /\ prop.title = sTitleNara
    /\ Len(MeaningfulTokens) = 1
    /\ Lower(sNara) \in Range(phrases)
    /\ Lower(sNara) \notin OtherValues

-----------------------------------------------------------------------------
(* The queries of Strategy 0 *)

\* the listing has a zone name and a community or sub_community
ZoneAndCommunity == prop.dld_zone_name # <<>> /\ CommunityOf(prop) # <<>>

\* the listing has a zone name and a master community
ZoneAndMaster == prop.dld_zone_name # <<>> /\ prop.master_community # <<>>

\* C20 as claimed: Strategy 0 issues a query only when the listing has a zone
\* name and a community or sub_community, and its zone and master community
\* query only after the zone and community query ran and returned no rows.
C20_AsClaimed ==
    \A i \in DOMAIN qlog :
        qlog[i].strategy = 0 =>
            /\ ZoneAndCommunity
            /\ qlog[i].query = "zone+master" =>
                  \E j \in 1..(i - 1) :
                      qlog[j].query = "zone+community" /\ qlog[j].rows = <<>>

\* Strategy 0 is over in a lookup that had phrases
Strategy0Over ==
    pc \in {"s1", "s2", "s3", "s4", "s5", "rank", "sort", "done"} /\ phrases # <<>>

\* C20, amended: the zone and community query is issued only when the listing
\* has a zone name and a community or sub_community, and is then the first
\* query of the lookup; the zone and master community query is issued only
\* when the listing has a zone name and a master community, and either first,
\* the zone and community query not having been issued, or second, after a
\* zone and community query that returned no rows; in a lookup with phrases
\* each of the two is issued whenever these conditions hold.
C20_RetryWithoutCommunity ==
    /\ \A i \in DOMAIN qlog :
          qlog[i].query = "zone+community" =>
              qlog[i].strategy = 0 /\ ZoneAndCommunity /\ i = 1
    /\ \A i \in DOMAIN qlog :
          qlog[i].query = "zone+master" =>
              /\ qlog[i].strategy = 0 /\ ZoneAndMaster
              /\ \/ i = 1 /\ ~ZoneAndCommunity
                 \/ /\ i = 2
                    /\ qlog[1].query = "zone+community"
                    /\ qlog[1].rows = <<>>
    /\ Strategy0Over =>
          /\ ZoneAndCommunity =>
                qlog # <<>> /\ qlog[1].query = "zone+community"
          /\ (ZoneAndMaster /\ ~ZoneAndCommunity) =>
                qlog # <<>> /\ qlog[1].query = "zone+master"
          /\ (ZoneAndMaster /\ ZoneAndCommunity /\ qlog[1].rows = <<>>) =>
                Len(qlog) >= 2 /\ qlog[2].query = "zone+master"

\* a listing with a zone name and a master community but neither community
\* nor sub_community, whose zone and master community query returned rows
C20_Witness ==
    /\ pc = "done"
    /\ ZoneAndMaster
    /\ ~ZoneAndCommunity
    /\ qlog[1].strategy = 0
    /\ qlog[1].query = "zone+master"
    /\ qlog[1].rows # <<>>

-----------------------------------------------------------------------------
(* The phrase loop of Strategy 1 *)

IsStrategy1(q) == q.strategy = 1

\* the queries Strategy 1 issued, in order
Strategy1Log == SelectSeq(qlog, IsStrategy1)

\* the record's project_name contains the phrase, whatever the case
NameContains(d, phrase) == Contains(Lower(phrase), Lower(d.project_name_en))

\* the i-th query is the one for phrases[i]; every query but the last found
\* nothing, as no record's project_name contains its phrase; the last one
\* either returned rows, all of the store and all containing its phrase, which
\* are the rows at the end of results, or it was the query of the last phrase
\* and no record contains that phrase either
FirstMatchingPhrase(log) ==
    LET k == Len(log)
    IN  /\ k >= 1 /\ k <= Len(phrases)
        /\ \A i \in 1..(k - 1) :
              /\ log[i].rows = <<>>
              /\ \A n \in DOMAIN db : ~NameContains(db[n], phrases[i])
        /\ IF log[k].rows = <<>>
           THEN /\ k = Len(phrases)
                /\ \A n \in DOMAIN db : ~NameContains(db[n], phrases[k])
           ELSE /\ \A n \in DOMAIN log[k].rows :
                      /\ NameContains(log[k].rows[n], phrases[k])
                      /\ log[k].rows[n] \in Range(db)
                /\ Len(results) >= Len(log[k].rows)
                /\ SubSeq(results, Len(results) - Len(log[k].rows) + 1, Len(results))
                      = log[k].rows

\* Strategy 1 has run
Strategy1Over ==
    pc \in {"s2", "s3", "s4", "s5", "rank", "sort", "done"} /\ phrases # <<>>

StoppedAtLater(log) ==
    /\ Len(log) >= 2
    /\ log[Len(log)].rows # <<>>
    /\ Len(phrases) > Len(log)

-----------------------------------------------------------------------------
(* The property type term of rank_results *)

\* the candidate's property_type_en and property_sub_type_en, lower-cased
TypeValues(d) == {Lower(d.property_type_en), Lower(d.property_sub_type_en)}

\* the listing's type is present and one of the candidate's values contains it
TypeContained(p, d) ==
    /\ p.property_type # <<>>
    /\ \E v \in TypeValues(d) : Contains(Lower(p.property_type), v)

\* the listing's type is present and is contained in one of the candidate's
\* values, or contains one that is not empty
TypeMatchesEitherWay(p, d) ==
    /\ p.property_type # <<>>
    /\ \E v \in TypeValues(d) :
          \/ Contains(Lower(p.property_type), v)
          \/ v # <<>> /\ Contains(v, Lower(p.property_type))

\* what the listing's property type added to the score of candidate i, in
\* tenths: the score less the score the same listing gets without its type
TypeTerm(i) ==
    score[i] - MatchScore(results[i], [prop EXCEPT !.property_type = EMPTY], phrases)

\* C22 as claimed: the score of a candidate holds the 15 of the property type
\* once when the listing's type matches the candidate's property_type or
\* property_subtype by substring in either direction, and not otherwise.
C22_AsClaimed ==
    pc \in {"sort", "ranked"} =>
        \A i \in DOMAIN results :
            TypeTerm(i) = IF TypeMatchesEitherWay(prop, results[i]) THEN 150 ELSE 0

\* C22, amended: the score of a candidate holds the 15 of the property type
\* once when the listing's type is present and the candidate's property_type
\* or property_subtype contains it, whatever the case, and not otherwise.
C22_TypeContained ==
    pc \in {"sort", "ranked"} =>
        \A i \in DOMAIN results :
            TypeTerm(i) = IF TypeContained(prop, results[i]) THEN 150 ELSE 0

\* a "Townhouse" listing ranked a candidate of subtype "Stacked Townhouses",
\* which got the 15, and a candidate of subtype "House", which did not
C22_Witness ==
    /\ pc = "ranked"
    /\ prop.property_type = sTownhouse
    /\ \E i \in DOMAIN results :
          results[i].property_sub_type_en = sStackedTownhouses /\ TypeTerm(i) = 150
    /\ \E i \in DOMAIN results :
          results[i].property_sub_type_en = sHouse /\ TypeTerm(i) = 0

-----------------------------------------------------------------------------
(* What _download_and_decompress leaves behind *)

\* _download_and_decompress has returned after a 200 response
ReturnedAfter200 == rpc \in {"ret_true", "ret_false"} /\ asset # "none"

-----------------------------------------------------------------------------
(* The column names convert_csv_to_sqlite derives *)

\* the column names have been derived from the header
ColumnsDerived == pc \in {"create", "rows", "etl_done", "etl_failed"}

\* C24: the column names derived from the header are pairwise distinct, one
\* per header column, and the creation of the table never fails on a
\* duplicate column name.
C24_DistinctColumns ==
    ColumnsDerived =>
        /\ Len(unique_columns) = Len(csv[1])
        /\ \A i, j \in DOMAIN unique_columns :
              i # j => unique_columns[i] # unique_columns[j]
        /\ pc # "etl_failed"

=============================================================================
